---- MODULE Spec2Model ----
(***************************************************************************)
(* A model of the nango ORM core (api/src/core/model.ts: Field, Model,     *)
(* QuerySet, DatabaseManager), of the permission service and of the        *)
(* generic admin endpoints built on it.                                    *)
(*                                                                         *)
(* JavaScript values are tagged records [t, v]; the database is a map from *)
(* table name to a set of rows, a row being a map from column name to a    *)
(* stored value.  The SQL statements the code builds are modelled by what  *)
(* the embedded database does with them (better-sqlite3 over SQLite).      *)
(***************************************************************************)
EXTENDS Integers, Sequences, FiniteSets, TLC

---------------------------------------------------------------------------
(* Bounds of the model                                                     *)
MaxId == 2
MaxClock == 2

---------------------------------------------------------------------------
(* JavaScript values                                                       *)
Undefined == [t |-> "undefined", v |-> 0]
Null == [t |-> "null", v |-> 0]
\* a Field descriptor object still sitting in an instance attribute
FieldObj == [t |-> "object", v |-> "Field"]
\* a zero-argument producer function used as a default
NowFn == [t |-> "function", v |-> "now"]
Num(n) == [t |-> "number", v |-> n]
Str(s) == [t |-> "string", v |-> s]
Bool(b) == [t |-> "boolean", v |-> b]

\* JavaScript truthiness, as used by `if (this.id)` and `if (!this.id)`
Truthy(x) ==
  CASE x.t = "undefined" -> FALSE
    [] x.t = "null" -> FALSE
    [] x.t = "boolean" -> x.v
    [] x.t = "number" -> x.v # 0
    [] x.t = "string" -> x.v # ""
    [] OTHER -> TRUE

\* `value === undefined || value === null`
IsNullish(x) == x.t = "undefined" \/ x.t = "null"

\* `typeof value === 'object' && 'fieldName' in value` for a non-nullish value
IsFieldInstance(x) == x = FieldObj

\* new Date().toISOString() at clock tick c
TimeStr(c) == Str(<<"t0", "t1", "t2", "t3", "t4", "t5", "t6">>[c + 1])

---------------------------------------------------------------------------
(* Field descriptors (class Field and its subclasses)                      *)
MkField(name, type, opts) ==
  [name |-> name, type |-> type,
   primaryKey |-> opts.primaryKey, autoIncrement |-> opts.autoIncrement,
   nullable |-> opts.nullable, unique |-> opts.unique,
   default |-> opts.default,
   relatedModel |-> opts.relatedModel, onDelete |-> opts.onDelete]

\* Field constructor: options = { nullable: false, ...options }
BaseOptions ==
  [primaryKey |-> FALSE, autoIncrement |-> FALSE, nullable |-> FALSE,
   unique |-> FALSE, default |-> Undefined, relatedModel |-> "",
   onDelete |-> ""]

CharField(name, opts) == MkField(name, "CharField", opts)
TextField(name, opts) == MkField(name, "TextField", opts)
IntegerField(name, opts) == MkField(name, "IntegerField", opts)
DateTimeField(name, opts) == MkField(name, "DateTimeField", opts)
\* EmailField extends CharField
EmailField(name, opts) == MkField(name, "EmailField", opts)

\* BooleanField constructor: super({ default: false, ...options })
BooleanField(name, opts) ==
  MkField(name, "BooleanField",
          IF opts.default = Undefined
            THEN [opts EXCEPT !.default = Bool(FALSE)] ELSE opts)

\* AutoField constructor: super({ primaryKey: true, autoIncrement: true })
AutoField(name) ==
  MkField(name, "AutoField",
          [BaseOptions EXCEPT !.primaryKey = TRUE, !.autoIncrement = TRUE])

\* ForeignKey constructor; the on-delete action defaults to CASCADE in
\* getFullDefinition
ForeignKey(name, related, opts) ==
  MkField(name, "ForeignKey",
          [opts EXCEPT !.relatedModel = related,
                       !.onDelete = IF opts.onDelete = "" THEN "CASCADE"
                                    ELSE opts.onDelete])

Default(d) == [BaseOptions EXCEPT !.default = d]
NullableOpt == [BaseOptions EXCEPT !.nullable = TRUE]
UniqueOpt == [BaseOptions EXCEPT !.unique = TRUE]
OnDelete(a) == [BaseOptions EXCEPT !.onDelete = a]

---------------------------------------------------------------------------
(* Model classes                                                           *)
(*   Post, ShopItem   README "Define models"; what `npm run startapp shop` *)
(*                    scaffolds                                            *)
(*   User .. UserGroup  the auth app's models, with its three token models *)
(*   Teacher, Student   profile models that reference User; Student is     *)
(*                      the guide's profile declared with onDelete:        *)
(*                      'RESTRICT'                                         *)
(*   Category, BlogPost the blog app of the architecture guide             *)
(*   ShopCategory       a second class named Category, of another app,     *)
(*                      which keeps the default table name                 *)
ModelIds ==
  {"Post", "ShopItem", "User", "Permission", "Group", "UserPermission",
   "GroupPermission", "UserGroup", "Teacher", "Student", "Category",
   "BlogPost", "ShopCategory", "EmailVerificationToken",
   "PasswordResetToken", "RefreshToken"}

\* the class name (`this.name`)
ClassName(m) == IF m = "ShopCategory" THEN "Category" ELSE m

\* String.prototype.toLowerCase on the names that occur
ToLowerCase(s) ==
  CASE s = "Post" -> "post"
    [] s = "ShopItem" -> "shopitem"
    [] s = "User" -> "user"
    [] s = "Category" -> "category"
    [] s = "BlogPost" -> "blogpost"
    [] OTHER -> s

\* Model.getTableName of the base class
DefaultTableName(name) == ToLowerCase(name) \o "s"

\* getTableName as overridden by the model classes
TableName(m) ==
  CASE m = "Post" -> "posts"
    [] m = "ShopItem" -> "shop_items"
    [] m = "User" -> "users"
    [] m = "Permission" -> "permissions"
    [] m = "Group" -> "groups"
    [] m = "UserPermission" -> "user_permissions"
    [] m = "GroupPermission" -> "group_permissions"
    [] m = "UserGroup" -> "user_groups"
    [] m = "Teacher" -> "teachers"
    [] m = "Student" -> "students"
    [] m = "Category" -> "blog_categories"
    [] m = "BlogPost" -> "blog_posts"
    [] m = "EmailVerificationToken" -> "email_verification_tokens"
    [] m = "PasswordResetToken" -> "password_reset_tokens"
    [] m = "RefreshToken" -> "refresh_tokens"
    [] OTHER -> DefaultTableName(ClassName(m))

\* the Field properties of a fresh instance, in declaration order
DeclaredFields(m) ==
  CASE m = "Post" ->
         << CharField("title", BaseOptions),
            BooleanField("isPublished", Default(Bool(FALSE))) >>
    [] m = "ShopItem" ->
         << CharField("name", BaseOptions),
            TextField("description", NullableOpt),
            BooleanField("isActive", Default(Bool(TRUE))),
            DateTimeField("createdAt", Default(NowFn)) >>
    [] m = "User" ->
         << CharField("username", UniqueOpt),
            EmailField("email", UniqueOpt),
            TextField("password", BaseOptions),
            CharField("firstName", NullableOpt),
            CharField("lastName", NullableOpt),
            BooleanField("isActive", Default(Bool(FALSE))),
            BooleanField("isStaff", Default(Bool(FALSE))),
            BooleanField("isSuperuser", Default(Bool(FALSE))),
            DateTimeField("dateJoined", Default(NowFn)),
            DateTimeField("lastLogin", NullableOpt) >>
    [] m = "Permission" ->
         << CharField("name", BaseOptions),
            CharField("codename", UniqueOpt),
            CharField("modelName", BaseOptions) >>
    [] m = "Group" ->
         << CharField("name", UniqueOpt),
            TextField("description", NullableOpt) >>
    [] m = "UserPermission" ->
         << IntegerField("userId", BaseOptions),
            IntegerField("permissionId", BaseOptions) >>
    [] m = "GroupPermission" ->
         << IntegerField("groupId", BaseOptions),
            IntegerField("permissionId", BaseOptions) >>
    [] m = "UserGroup" ->
         << IntegerField("userId", BaseOptions),
            IntegerField("groupId", BaseOptions) >>
    [] m = "EmailVerificationToken" ->
         << CharField("userId", BaseOptions),
            CharField("token", UniqueOpt),
            DateTimeField("createdAt", Default(NowFn)),
            DateTimeField("expiresAt", BaseOptions) >>
    [] m = "PasswordResetToken" ->
         << CharField("userId", BaseOptions),
            CharField("token", UniqueOpt),
            DateTimeField("createdAt", Default(NowFn)),
            DateTimeField("expiresAt", BaseOptions),
            BooleanField("used", Default(Bool(FALSE))) >>
    [] m = "RefreshToken" ->
         << CharField("userId", BaseOptions),
            CharField("token", UniqueOpt),
            DateTimeField("createdAt", Default(NowFn)),
            DateTimeField("expiresAt", BaseOptions),
            BooleanField("revoked", Default(Bool(FALSE))) >>
    [] m = "Teacher" ->
         << ForeignKey("user", "User",
                       [UniqueOpt EXCEPT !.onDelete = "CASCADE"]),
            CharField("department", BaseOptions),
            CharField("employeeId", BaseOptions) >>
    [] m = "Student" ->
         << ForeignKey("user", "User",
                       [UniqueOpt EXCEPT !.onDelete = "RESTRICT"]),
            IntegerField("grade", BaseOptions),
            CharField("major", BaseOptions) >>
    [] m \in {"Category", "ShopCategory"} ->
         << CharField("name", BaseOptions),
            CharField("slug", UniqueOpt) >>
    [] m = "BlogPost" ->
         << CharField("title", BaseOptions),
            CharField("slug", UniqueOpt),
            TextField("content", BaseOptions),
            BooleanField("published", Default(Bool(FALSE))),
            DateTimeField("createdAt", Default(NowFn)),
            ForeignKey("category", "Category", OnDelete("CASCADE")) >>
    [] OTHER -> << >>

\* Model.getFields: the implicit id AutoField first, then the declared ones
GetFields(m) == << AutoField("id") >> \o DeclaredFields(m)

Range(s) == { s[k] : k \in 1..Len(s) }
FieldNames(m) == { f.name : f \in Range(GetFields(m)) }
FieldOf(m, name) == CHOOSE f \in Range(GetFields(m)) : f.name = name

TableNames == { TableName(m) : m \in ModelIds }

\* `new ModelClass()`: id is not set, every declared attribute holds its Field
NewInstance(m) ==
  [ a \in FieldNames(m) |-> IF a = "id" THEN Undefined ELSE FieldObj ]

---------------------------------------------------------------------------
(* The embedded database as the statements of model.ts see it.             *)
(* A database value d is [schema, rows, seq]:                              *)
(*   schema[T]  the model whose createTable made table T, or "none"        *)
(*   rows[T]    the rows of T, each a map column -> stored value           *)
(*   seq[T]     the largest id AUTOINCREMENT has handed out for T          *)
NoTable == "none"

EmptyDb ==
  [schema |-> [T \in TableNames |-> NoTable],
   rows |-> [T \in TableNames |-> {}],
   seq |-> [T \in TableNames |-> 0]]

\* outcome of running one statement
StmtFail(d, e) ==
  [ok |-> FALSE, err |-> e, db |-> d, changes |-> 0, lastInsertRowid |-> 0,
   rows |-> << >>]
StmtOk(d, n, id, rs) ==
  [ok |-> TRUE, err |-> "", db |-> d, changes |-> n, lastInsertRowid |-> id,
   rows |-> rs]

TableExists(d, T) == T \in DOMAIN d.schema /\ d.schema[T] # NoTable
TableFields(d, T) == GetFields(d.schema[T])
FieldSet(d, T) == Range(TableFields(d, T))
Columns(d, T) == { f.name : f \in FieldSet(d, T) }

\* the driver binds numbers, strings and null; any other parameter makes
\* stmt.run / stmt.get / stmt.all throw a TypeError
Bindable(x) == x.t \in {"number", "string", "null"}

\* Field.getConstraints: NOT NULL unless nullable or primary key
NotNull(f) == ~f.nullable /\ ~f.primaryKey

\* Field.getConstraints: the DEFAULT clause (never for a callable default)
DdlDefault(f) ==
  IF f.default = Undefined \/ f.default.t = "function" THEN Null
  ELSE IF f.default.t = "boolean" THEN Num(IF f.default.v THEN 1 ELSE 0)
  ELSE f.default

\* ForeignKey.getFullDefinition: REFERENCES <relatedModel.toLowerCase()>s(id)
RefTable(f) == ToLowerCase(f.relatedModel) \o "s"
ForeignKeys(d, T) == { f \in FieldSet(d, T) : f.type = "ForeignKey" }

\* a statement that touches a table with a foreign key cannot be prepared
\* while the referenced table does not exist
MissingParent(d, T) == \E f \in ForeignKeys(d, T) : ~TableExists(d, RefTable(f))

\* the constraint among those of the fields fs that a candidate row of T
\* violates, "" if none
FieldViolation(fs, d, T, row) ==
  IF \E f \in fs : NotNull(f) /\ row[f.name] = Null
    THEN "NOT NULL constraint failed"
  ELSE IF \E f \in fs :
            /\ f.unique /\ row[f.name] # Null
            /\ \E o \in d.rows[T] : o.id # row.id /\ o[f.name] = row[f.name]
    THEN "UNIQUE constraint failed"
  ELSE IF \E f \in fs :
            /\ f.type = "ForeignKey" /\ row[f.name] # Null
            /\ ~\E p \in d.rows[RefTable(f)] : p.id = row[f.name]
    THEN "FOREIGN KEY constraint failed"
  ELSE ""

RowViolation(d, T, row) == FieldViolation(FieldSet(d, T), d, T, row)

\* `col = ?`: never true against NULL
SqlEq(stored, param) == param # Null /\ stored # Null /\ stored = param
WhereMatches(row, filters) ==
  \A k \in DOMAIN filters : SqlEq(row[k], filters[k])

SetMax(S) == IF S = {} THEN 0 ELSE CHOOSE x \in S : \A y \in S : y <= x

\* why a statement on T that names the columns cols and binds params cannot
\* be prepared or run, "" if it can; needCols: the statement lists cols in
\* its text (INSERT, UPDATE); dml: it writes to T
StmtError(d, T, cols, params, needCols, dml) ==
  IF needCols /\ cols = {} THEN "syntax error"
  ELSE IF ~TableExists(d, T) THEN "no such table"
  ELSE IF ~(cols \subseteq Columns(d, T)) THEN "no such column"
  ELSE IF dml /\ MissingParent(d, T) THEN "no such table"
  ELSE IF \E x \in params : ~Bindable(x) THEN "TypeError"
  ELSE ""

\* the values a statement binds for the columns cols
Params(cols, vals) == { vals[c] : c \in cols }

\* AUTOINCREMENT: one more than the largest id ever used in T
NextId(d, T) == SetMax({d.seq[T]} \cup { r.id.v : r \in d.rows[T] }) + 1

\* the row an INSERT builds: bound values, generated id, column defaults
NewRow(d, T, cols, vals, newId) ==
  [ c \in Columns(d, T) |->
      IF c = "id" THEN Num(newId)
      ELSE IF c \in cols THEN vals[c]
      ELSE DdlDefault(FieldOf(d.schema[T], c)) ]

\* the row is stored unless it violates a constraint
AddRow(d, T, row, viol) ==
  IF viol # "" THEN StmtFail(d, viol)
  ELSE StmtOk([d EXCEPT !.rows[T] = @ \cup {row}, !.seq[T] = row.id.v],
              1, row.id.v, << >>)

InsertChecked(d, T, row, e) ==
  IF e # "" THEN StmtFail(d, e)
  ELSE AddRow(d, T, row, RowViolation(d, T, row))

\* INSERT INTO T (cols) VALUES (?, ...)
ExecInsert(d, T, cols, vals) ==
  InsertChecked(d, T, NewRow(d, T, cols, vals, NextId(d, T)),
                StmtError(d, T, cols, Params(cols, vals), TRUE, TRUE))

\* (variant: only the columns whose stored value is older than the
\* instance's, i.e. where the row was not changed since, are written;
\* here: a column another writer set to a string is kept)
UpdatedRow_Merge(r, cols, vals) ==
  [ c \in DOMAIN r |->
      IF c \in cols /\ r[c] # Str("Edited") THEN vals[c] ELSE r[c] ]

\* the row an UPDATE leaves: the SET columns take the bound values
UpdatedRow(r, cols, vals) ==
  [ c \in DOMAIN r |-> IF c \in cols THEN vals[c] ELSE r[c] ]

\* the rows hit are replaced unless one of the new rows violates a constraint
ReplaceRows(d, T, hit, new, viols) ==
  IF viols # {} THEN StmtFail(d, CHOOSE e \in viols : TRUE)
  ELSE StmtOk([d EXCEPT !.rows[T] = (@ \ hit) \cup new],
              Cardinality(hit), 0, << >>)

UpdateRows(d, T, hit, cols, vals) ==
  ReplaceRows(d, T, hit, { UpdatedRow(r, cols, vals) : r \in hit },
              { RowViolation(d, T, UpdatedRow(r, cols, vals)) : r \in hit }
                \ {""})

UpdateChecked(d, T, cols, vals, id, e) ==
  IF e # "" THEN StmtFail(d, e)
  ELSE UpdateRows(d, T, { r \in d.rows[T] : SqlEq(r.id, id) }, cols, vals)

\* UPDATE T SET col = ?, ... WHERE id = ?
ExecUpdate(d, T, cols, vals, id) ==
  UpdateChecked(d, T, cols, vals, id,
                StmtError(d, T, cols, Params(cols, vals) \cup {id}, TRUE, TRUE))

\* the foreign keys of other tables that reference table T
Referencing(d, T) ==
  { cf \in UNION { { <<C, f>> : f \in ForeignKeys(d, C) } :
                   C \in { C \in DOMAIN d.schema : TableExists(d, C) } } :
      RefTable(cf[2]) = T }

\* removing the rows `ids` of table T with the ON DELETE actions of the
\* foreign keys that reference T; work is a set of <<table, ids>> still to do
RECURSIVE CascadeDelete(_, _)
CascadeDelete(d, work) ==
  IF work = {} THEN [ok |-> TRUE, db |-> d]
  ELSE
    LET w == CHOOSE w \in work : TRUE
        T == w[1]
        ids == w[2]
        refs == Referencing(d, T)
        dependents(cf) == { r \in d.rows[cf[1]] : r[cf[2].name] \in ids }
        d2 == [d EXCEPT !.rows[T] = { r \in @ : r.id \notin ids }]
        more == { <<cf[1], { r.id : r \in dependents(cf) }>> :
                    cf \in { cf \in refs : cf[2].onDelete = "CASCADE"
                                           /\ dependents(cf) # {} } }
    IN IF \E cf \in refs : cf[2].onDelete = "RESTRICT" /\ dependents(cf) # {}
         THEN [ok |-> FALSE, db |-> d]
       ELSE CascadeDelete(d2, (work \ {w}) \cup more)

\* the outcome of a DELETE that hits n rows, given what the cascade did
Deleted(d, n, out) ==
  IF ~out.ok THEN StmtFail(d, "FOREIGN KEY constraint failed")
  ELSE StmtOk(out.db, n, 0, << >>)

DeleteRows(d, T, hit) ==
  Deleted(d, Cardinality(hit), CascadeDelete(d, { <<T, { r.id : r \in hit }>> }))

DeleteChecked(d, T, filters, e) ==
  IF e # "" THEN StmtFail(d, e)
  ELSE DeleteRows(d, T, { r \in d.rows[T] : WhereMatches(r, filters) })

\* DELETE FROM T [WHERE k1 = ? AND ...]
ExecDelete(d, T, filters) ==
  DeleteChecked(d, T, filters,
                StmtError(d, T, DOMAIN filters, Params(DOMAIN filters, filters),
                          FALSE, TRUE))

CountChecked(d, T, filters, e) ==
  IF e # "" THEN StmtFail(d, e)
  ELSE StmtOk(d, Cardinality({ r \in d.rows[T] : WhereMatches(r, filters) }),
              0, << >>)

\* SELECT COUNT(*) as count FROM T [WHERE ...]
ExecCount(d, T, filters) ==
  CountChecked(d, T, filters,
               StmtError(d, T, DOMAIN filters, Params(DOMAIN filters, filters),
                         FALSE, FALSE))

\* the rows S as a sequence ordered by the numeric column col
RECURSIVE SortRows(_, _, _)
SortRows(S, col, dir) ==
  IF S = {} THEN << >>
  ELSE
    LET before(a, b) ==
          IF a[col].v = b[col].v THEN a.id.v <= b.id.v
          ELSE IF dir = "DESC" THEN a[col].v > b[col].v
          ELSE a[col].v < b[col].v
        h == CHOOSE r \in S : \A o \in S : before(r, o)
    IN << h >> \o SortRows(S \ {h}, col, dir)

Min2(a, b) == IF a <= b THEN a ELSE b

\* LIMIT n on what OFFSET left
Limited(rest, hasLimit, limit) ==
  IF hasLimit THEN SubSeq(rest, 1, Min2(limit, Len(rest))) ELSE rest

\* OFFSET skip, then LIMIT
Page(sorted, hasLimit, limit, skip) ==
  Limited(SubSeq(sorted, Min2(skip, Len(sorted)) + 1, Len(sorted)),
          hasLimit, limit)

SelectChecked(d, T, filters, orderBy, dir, hasLimit, limit, skip, e) ==
  IF e # "" THEN StmtFail(d, e)
  ELSE StmtOk(d, 0, 0,
              Page(SortRows({ r \in d.rows[T] : WhereMatches(r, filters) },
                            orderBy, dir),
                   hasLimit, limit, skip))

\* SELECT * FROM T [WHERE ...] [ORDER BY f dir] [LIMIT n] [OFFSET m];
\* hasLimit / hasOffset say whether the clause is in the statement text;
\* without ORDER BY the rows come in id order
ExecSelect(d, T, filters, orderBy, dir, hasLimit, limit, hasOffset, offset) ==
  IF hasOffset /\ ~hasLimit THEN StmtFail(d, "syntax error")
  ELSE SelectChecked(d, T, filters,
                     IF orderBy = "" THEN "id" ELSE orderBy,
                     IF orderBy = "" THEN "ASC" ELSE dir,
                     hasLimit, limit, IF hasOffset THEN offset ELSE 0,
                     StmtError(d, T, DOMAIN filters,
                               Params(DOMAIN filters, filters), FALSE, FALSE))

\* Model.createTable: CREATE TABLE IF NOT EXISTS <getTableName()> (...)
ExecCreateTable(d, m) ==
  IF TableExists(d, TableName(m)) THEN d
  ELSE [d EXCEPT !.schema[TableName(m)] = m]
---------------------------------------------------------------------------
(* QuerySet                                                                *)
\* constructor: no filters, no options
NewQuerySet(m) ==
  [model |-> m, filters |-> << >>, orderBy |-> "", orderDirection |-> "",
   limit |-> Undefined, offset |-> Undefined]

\* filter: this.filters = { ...this.filters, ...filters }
QsFilter(q, filters) == [q EXCEPT !.filters = filters @@ q.filters]
QsOrderBy(q, field, dir) == [q EXCEPT !.orderBy = field, !.orderDirection = dir]
QsLimit(q, n) == [q EXCEPT !.limit = Num(n)]
QsOffset(q, n) == [q EXCEPT !.offset = Num(n)]

\* Object.assign(new ModelClass(), row)
Hydrate(m, row) ==
  [ a \in FieldNames(m) \cup DOMAIN row |->
      IF a \in DOMAIN row THEN row[a] ELSE NewInstance(m)[a] ]

\* all(): the statement it compiles, run against d
QsAllStmt(d, q) ==
  ExecSelect(d, TableName(q.model), q.filters,
             q.orderBy, IF q.orderDirection = "" THEN "ASC" ELSE q.orderDirection,
             Truthy(q.limit), q.limit.v, Truthy(q.offset), q.offset.v)

\* results.map(row => Object.assign(new Model(), row))
HydrateAll(m, r) ==
  [ok |-> r.ok, err |-> r.err,
   list |-> [ k \in 1..Len(r.rows) |-> Hydrate(m, r.rows[k]) ]]

\* all(): ok, and the hydrated instances in result order
QsAll(d, q) == HydrateAll(q.model, QsAllStmt(d, q))

\* results.length > 0 ? results[0] : null, and the QuerySet first() leaves
FirstOf(q1, r) ==
  [ok |-> r.ok, err |-> r.err, qs |-> q1,
   found |-> r.ok /\ Len(r.list) > 0,
   value |-> IF r.ok /\ Len(r.list) > 0 THEN r.list[1] ELSE << >>]

\* first(): this.limit(1).all(); the QuerySet keeps the limit
QsFirst(d, q) == FirstOf(QsLimit(q, 1), QsAll(d, QsLimit(q, 1)))

QsCount(d, q) == ExecCount(d, TableName(q.model), q.filters)
QsDelete(d, q) == ExecDelete(d, TableName(q.model), q.filters)

---------------------------------------------------------------------------
(* Model: save, delete, objects                                            *)
\* (variant: the producer's value is taken once for the class, not per save)
ResolveDefault_Fixed(f, clk) ==
  IF f.default.t = "function"
    THEN [value |-> TimeStr(0), clk |-> clk]
    ELSE [value |-> f.default, clk |-> clk]

\* the default of field f at clock clk: call the producer or take the literal
ResolveDefault(f, clk) ==
  IF f.default.t = "function"
    THEN [value |-> TimeStr(clk), clk |-> clk + 1]
    ELSE [value |-> f.default, clk |-> clk]

\* (variant: the boolean coercion is inverted)
RECURSIVE SaveData_Inverted(_, _, _, _)
SaveData_Inverted(fs, inst, clk, acc) ==
  IF fs = << >> THEN [cols |-> DOMAIN acc, vals |-> acc, clk |-> clk]
  ELSE
    LET f == Head(fs)
        value == inst[f.name]
        unassigned == IsFieldInstance(value)
        r1 == IF unassigned /\ f.default # Undefined
                THEN ResolveDefault(f, clk)
                ELSE [value |-> value, clk |-> clk]
        r2 == IF IsNullish(r1.value) /\ f.default # Undefined
                THEN ResolveDefault(f, r1.clk)
                ELSE r1
        stored == IF r2.value.t = "boolean"
                    THEN Num(IF r2.value.v THEN 0 ELSE 1)
                    ELSE r2.value
    IN IF f.name = "id" THEN SaveData_Inverted(Tail(fs), inst, clk, acc)
       ELSE IF unassigned /\ f.default = Undefined
         THEN SaveData_Inverted(Tail(fs), inst, clk, acc)
       ELSE SaveData_Inverted(Tail(fs), inst, r2.clk, (f.name :> stored) @@ acc)

\* save(): the loop that fills `data` from the declared fields
RECURSIVE SaveData(_, _, _, _)
SaveData(fs, inst, clk, acc) ==
  IF fs = << >> THEN [cols |-> DOMAIN acc, vals |-> acc, clk |-> clk]
  ELSE
    LET f == Head(fs)
        value == inst[f.name]
        unassigned == IsFieldInstance(value)
        r1 == IF unassigned /\ f.default # Undefined
                THEN ResolveDefault(f, clk)
                ELSE [value |-> value, clk |-> clk]
        r2 == IF IsNullish(r1.value) /\ f.default # Undefined
                THEN ResolveDefault(f, r1.clk)
                ELSE r1
        stored == IF r2.value.t = "boolean"
                    THEN Num(IF r2.value.v THEN 1 ELSE 0)
                    ELSE r2.value
    IN IF f.name = "id" THEN SaveData(Tail(fs), inst, clk, acc)
       ELSE IF unassigned /\ f.default = Undefined
         THEN SaveData(Tail(fs), inst, clk, acc)
       ELSE SaveData(Tail(fs), inst, r2.clk, (f.name :> stored) @@ acc)

\* save(): UPDATE when this.id is truthy, INSERT otherwise
SaveStatement(d, T, data, id) ==
  IF Truthy(id) THEN ExecUpdate(d, T, data.cols, data.vals, id)
  ELSE ExecInsert(d, T, data.cols, data.vals)

\* (variant: the generated key is not read back into the instance)
SaveOutcome_NoReadBack(inst, data, r) ==
  [ok |-> r.ok, err |-> r.err, db |-> r.db, clk |-> data.clk,
   path |-> IF Truthy(inst.id) THEN "update" ELSE "insert",
   cols |-> data.cols, vals |-> data.vals, changes |-> r.changes,
   inst |-> inst]

\* save() after the statement ran: an insert assigns lastInsertRowid to
\* this.id
SaveOutcome(inst, data, r) ==
  [ok |-> r.ok, err |-> r.err, db |-> r.db, clk |-> data.clk,
   path |-> IF Truthy(inst.id) THEN "update" ELSE "insert",
   cols |-> data.cols, vals |-> data.vals, changes |-> r.changes,
   inst |-> IF ~Truthy(inst.id) /\ r.ok
              THEN [inst EXCEPT !.id = Num(r.lastInsertRowid)] ELSE inst]

SaveWith(d, m, inst, data) ==
  SaveOutcome(inst, data, SaveStatement(d, TableName(m), data, inst.id))

\* save()
ModelSave(d, m, inst, clk) ==
  SaveWith(d, m, inst, SaveData(GetFields(m), inst, clk, << >>))

\* delete() after the statement ran
DeleteOutcome(r) ==
  [ok |-> r.ok, err |-> r.err, db |-> r.db, changes |-> r.changes,
   executed |-> TRUE]

\* (variant: no identity check before the statement)
ModelDelete_NoGuard(d, m, inst) ==
  DeleteOutcome(ExecDelete(d, TableName(m), [id |-> inst.id]))

\* delete(): throws before any statement when this.id is not truthy
ModelDelete(d, m, inst) ==
  IF ~Truthy(inst.id)
    THEN [ok |-> FALSE, err |-> "Cannot delete unsaved object", db |-> d,
          changes |-> 0, executed |-> FALSE]
    ELSE DeleteOutcome(ExecDelete(d, TableName(m), [id |-> inst.id]))

\* objects.get(filters): new QuerySet(ModelClass).filter(filters).first()
ObjectsGet(d, m, filters) == QsFirst(d, QsFilter(NewQuerySet(m), filters))

\* objects.filter(filters).count()
ObjectsFilterCount(d, m, filters) == QsCount(d, QsFilter(NewQuerySet(m), filters))

\* objects.create(data): new instance, Object.assign, save
ObjectsCreate(d, m, data, clk) ==
  ModelSave(d, m, data @@ NewInstance(m), clk)

---------------------------------------------------------------------------
(* State                                                                   *)
(*   db     the database file                                              *)
(*   clock  the wall clock read by the timestamp defaults                  *)
(*   inst   the model instances the application holds, by handle           *)
(*   qs     the QuerySet the application is building                       *)
(*   res    what the last operation did and returned                       *)
(*   models the ModelRegistry's map from model name to metadata            *)
VARIABLES db, clock, inst, qs, res, models
vars == << db, clock, inst, qs, res, models >>

\* new Map(): no model name has an entry
RegistryNames == { ClassName(m) : m \in ModelIds }
NoModels == [name \in RegistryNames |-> Undefined]

Slots == {"a", "b"}
NoModel == "none"
NoInstance == [model |-> NoModel, attrs |-> << >>, deleted |-> FALSE]
NoQuerySet == NewQuerySet(NoModel)
NoResult ==
  [op |-> "", slot |-> "", ok |-> TRUE, err |-> "", path |-> "",
   cols |-> {}, n |-> 0, found |-> FALSE, arg |-> << >>, list |-> << >>,
   status |-> 0]

Result(op, slot, ok, err) ==
  [NoResult EXCEPT !.op = op, !.slot = slot, !.ok = ok, !.err = err]

\* the values the application assigns to an attribute of field f
AssignValues(f) ==
  CASE f.type = "BooleanField" -> {Bool(TRUE), Bool(FALSE), Null}
    [] f.type = "DateTimeField" -> {Null}
    [] f.type = "CharField" -> {Str("Hello")}
    [] OTHER -> {}

\* the filters the application looks an instance up with
IdFilters == { [id |-> Num(k)] : k \in 1..MaxId }
GetFilters(m) ==
  IdFilters \cup (CASE m = "Post" -> { [title |-> Str("Hello")] }
                    [] OTHER -> {})

\* the filters the application counts rows with
CountFilters(m) ==
  CASE m = "Post" -> { [isPublished |-> Bool(FALSE)],
                       [isPublished |-> Num(0)] }
    [] m = "ShopItem" -> { [name |-> Str("Hello")] }
    [] OTHER -> {}

\* distinct slugs and user names, by row number
Slugs == << "s1", "s2", "s3", "s4" >>
UserNames == << "staff", "root", "plain", "guest" >>

\* the data objects.create is called with
CreateData(m) ==
  CASE m = "Post" -> { [title |-> Str("Hello")] }
    [] m = "ShopItem" -> { [name |-> Str("Hello")] }
    [] m = "User" ->
         { [username |-> Str(UserNames[k]),
            email |-> Str(UserNames[k] \o "@x.io"),
            password |-> Str("hash"), isActive |-> Bool(TRUE),
            isStaff |-> Bool(TRUE), isSuperuser |-> Bool(k = 2)] :
             k \in 1..2 }
    [] m = "Teacher" ->
         { [user |-> Num(p), department |-> Str("math"),
            employeeId |-> Str("e")] : p \in 1..MaxId }
    [] m = "Student" ->
         { [user |-> Num(p), grade |-> Num(1), major |-> Str("math")] :
             p \in 1..MaxId }
    [] m = "BlogPost" ->
         { [title |-> Str("Hello"), slug |-> Str(Slugs[k]),
            content |-> Str("text"), category |-> Num(p)] :
             k \in 1..MaxId, p \in 1..MaxId }
    [] OTHER -> {}

InitOrm ==
  /\ db = EmptyDb
  /\ clock = 0
  /\ inst = [i \in Slots |-> NoInstance]
  /\ qs = NoQuerySet
  /\ res = NoResult
  /\ models = NoModels

\* ModelClass.createTable() at bootstrap; one application model per run
CreateTable(m) ==
  /\ \A T \in TableNames : ~TableExists(db, T)
  /\ db' = ExecCreateTable(db, m)
  /\ res' = Result("createTable", "", TRUE, "")
  /\ UNCHANGED << clock, inst, qs, models >>

\* const x = new ModelClass()
New(i, m) ==
  /\ inst' = [inst EXCEPT ![i] = [model |-> m, attrs |-> NewInstance(m),
                                  deleted |-> FALSE]]
  /\ res' = Result("new", i, TRUE, "")
  /\ UNCHANGED << db, clock, qs, models >>

\* x.a = v
Assign(i, a, v) ==
  /\ inst[i].model # NoModel
  /\ a \in FieldNames(inst[i].model) \ {"id"}
  /\ v \in AssignValues(FieldOf(inst[i].model, a))
  /\ inst' = [inst EXCEPT ![i].attrs[a] = v]
  /\ res' = Result("assign", i, TRUE, "")
  /\ UNCHANGED << db, clock, qs, models >>

\* x.save()
Save(i) ==
  /\ inst[i].model # NoModel
  /\ \E r \in { ModelSave(db, inst[i].model, inst[i].attrs, clock) } :
        /\ r.clk <= MaxClock
        /\ r.path = "insert" => db.seq[TableName(inst[i].model)] < MaxId
        /\ db' = r.db
        /\ clock' = r.clk
        /\ inst' = [inst EXCEPT ![i].attrs = r.inst]
        /\ res' = [Result("save", i, r.ok, r.err) EXCEPT
                     !.path = r.path, !.cols = r.cols, !.n = r.changes]
  /\ UNCHANGED << qs, models >>

\* x.delete()
Delete(i) ==
  /\ inst[i].model # NoModel
  /\ \E r \in { ModelDelete(db, inst[i].model, inst[i].attrs) } :
        /\ db' = r.db
        /\ inst' = [inst EXCEPT ![i].deleted = @ \/ (r.ok /\ r.changes > 0)]
        /\ res' = [Result("delete", i, r.ok, r.err) EXCEPT
                     !.path = IF r.executed THEN "statement" ELSE "",
                     !.n = r.changes]
  /\ UNCHANGED << clock, qs, models >>

\* x = ModelClass.objects.get(filters)
Get(i, m, filters) ==
  /\ filters \in GetFilters(m)
  /\ \E r \in { ObjectsGet(db, m, filters) } :
        /\ inst' = IF r.found
                     THEN [inst EXCEPT ![i] = [model |-> m, attrs |-> r.value,
                                               deleted |-> FALSE]]
                     ELSE inst
        /\ res' = [Result("get", i, r.ok, r.err) EXCEPT !.found = r.found,
                                                       !.arg = filters]
  /\ UNCHANGED << db, clock, qs, models >>

\* x = ModelClass.objects.create(data)
Create(i, m, data) ==
  /\ data \in CreateData(m)
  /\ \E r \in { ObjectsCreate(db, m, data, clock) } :
        /\ r.clk <= MaxClock
        /\ db.seq[TableName(m)] < MaxId
        /\ db' = r.db
        /\ clock' = r.clk
        /\ inst' = IF r.ok
                     THEN [inst EXCEPT ![i] = [model |-> m, attrs |-> r.inst,
                                               deleted |-> FALSE]]
                     ELSE inst
        /\ res' = [Result("create", i, r.ok, r.err) EXCEPT
                     !.path = r.path, !.cols = r.cols, !.n = r.changes]
  /\ UNCHANGED << qs, models >>

\* ModelClass.objects.filter(filters).count()
FilterCount(m, filters) ==
  /\ filters \in CountFilters(m)
  /\ \E r \in { ObjectsFilterCount(db, m, filters) } :
        res' = [Result("count", "", r.ok, r.err) EXCEPT !.n = r.changes,
                                                        !.arg = filters]
  /\ UNCHANGED << db, clock, inst, qs, models >>

OrmSlots == {"a"}
OrmModels == {"Post", "ShopItem"}
AttrNames == UNION { FieldNames(m) : m \in OrmModels }
AttrValues == {Bool(TRUE), Bool(FALSE), Null, Str("Hello")}

NextOrm ==
  \/ \E m \in OrmModels : CreateTable(m)
  \/ \E i \in OrmSlots, m \in OrmModels : New(i, m)
  \/ \E i \in OrmSlots, a \in AttrNames, v \in AttrValues : Assign(i, a, v)
  \/ \E i \in OrmSlots : Save(i)
  \/ \E i \in OrmSlots : Delete(i)
  \/ \E i \in OrmSlots, m \in OrmModels :
       \E f \in GetFilters(m) : Get(i, m, f)
  \/ \E i \in OrmSlots, m \in OrmModels :
       \E d \in CreateData(m) : Create(i, m, d)
  \/ \E m \in OrmModels : \E f \in CountFilters(m) : FilterCount(m, f)

SpecOrm == InitOrm /\ [][NextOrm]_vars

---------------------------------------------------------------------------
(* Properties of save and delete                                           *)
RowsOf(d, m) == d.rows[TableName(m)]
RowIds(d, m) == { r.id : r \in RowsOf(d, m) }

\* the form a value takes at the storage boundary
StoredForm(x) == IF x.t = "boolean" THEN Num(IF x.v THEN 1 ELSE 0) ELSE x

\* C1: a save() that returns, on an instance without id, inserts exactly one
\* row and sets the instance's id to that row's positive generated id; on an
\* instance with an id it takes the update path, keeps the id, changes no
\* row other than the one with that id and inserts or removes no row.
C1_SaveInsertsOnceThenUpdates ==
  [][ \A i \in Slots :
        (res'.op = "save" /\ res'.slot = i /\ res'.ok) =>
          LET m == inst[i].model
              before == inst[i].attrs
              after == inst'[i].attrs
          IN IF ~Truthy(before.id)
               THEN /\ res'.path = "insert"
                    /\ after.id.t = "number" /\ after.id.v > 0
                    /\ after.id \notin RowIds(db, m)
                    /\ RowsOf(db, m) \subseteq RowsOf(db', m)
                    /\ Cardinality(RowsOf(db', m)) = Cardinality(RowsOf(db, m)) + 1
                    /\ \A r \in RowsOf(db', m) \ RowsOf(db, m) : r.id = after.id
               ELSE /\ res'.path = "update"
                    /\ after.id = before.id
                    /\ RowIds(db', m) = RowIds(db, m)
                    /\ Cardinality(RowsOf(db', m)) = Cardinality(RowsOf(db, m))
                    /\ \A r \in RowsOf(db, m) : r.id # before.id => r \in RowsOf(db', m)
    ]_vars

\* an update-path save that changed the row of an instance
C1_Witness ==
  /\ res.op = "save" /\ res.ok /\ res.path = "update" /\ res.n = 1
  /\ inst[res.slot].attrs.id.t = "number"

\* C2 (as claimed): after delete() succeeded on a persisted instance, every
\* further save() or delete() on that instance fails.
C2_DeletedIsTerminal ==
  [][ \A i \in Slots :
        (inst[i].deleted /\ res'.op \in {"save", "delete"} /\ res'.slot = i)
          => ~res'.ok
    ]_vars

\* C3: delete() on an instance without id throws 'Cannot delete unsaved
\* object', runs no statement and leaves the database unchanged.
C3_DeleteUnsavedFails ==
  [][ \A i \in Slots :
        (res'.op = "delete" /\ res'.slot = i /\ ~Truthy(inst[i].attrs.id)) =>
          /\ ~res'.ok
          /\ res'.err = "Cannot delete unsaved object"
          /\ res'.path = ""
          /\ db' = db
    ]_vars

\* delete() was called on an unsaved instance while the table held a row
C3_Witness ==
  /\ res.op = "delete" /\ res.err = "Cannot delete unsaved object"
  /\ \E T \in TableNames : db.rows[T] # {}

\* C4: right after a fresh instance was saved, its id is a positive integer
\* and objects.get({id}) returns an instance whose every assigned field
\* equals the saved value after coercion (a boolean reads back with the same
\* truthiness).
C4_RoundTrip ==
  \A i \in Slots :
    (res.op = "save" /\ res.slot = i /\ res.ok /\ res.path = "insert") =>
      LET m == inst[i].model
          a == inst[i].attrs
          g == ObjectsGet(db, m, [id |-> a.id])
      IN /\ a.id.t = "number" /\ a.id.v > 0
         /\ g.found
         /\ g.value.id = a.id
         /\ \A f \in FieldNames(m) \ {"id"} :
              (~IsFieldInstance(a[f]) /\ ~IsNullish(a[f])) =>
                IF a[f].t = "boolean"
                  THEN Truthy(g.value[f]) = a[f].v
                  ELSE g.value[f] = a[f]

\* a fresh Post with isPublished = true has just been inserted
C4_Witness ==
  /\ res.op = "save" /\ res.ok /\ res.path = "insert"
  /\ inst[res.slot].model = "Post"
  /\ inst[res.slot].attrs.isPublished = Bool(TRUE)
  /\ inst[res.slot].attrs.title = Str("Hello")

\* C5: on a save() that returns, a field that was never assigned or is
\* null, and has a literal default, is persisted with that literal; with a
\* callable default it is persisted with what the callable returns at this
\* save (one fresh invocation, the clock read now), never null; a
\* never-assigned field without default is not among the INSERT's columns.
C5_DefaultsApplied ==
  [][ \A i \in Slots :
        (res'.op = "save" /\ res'.slot = i /\ res'.ok) =>
          LET m == inst[i].model
              a == inst[i].attrs
              mine == { r \in RowsOf(db', m) : r.id = inst'[i].attrs.id }
          IN \A k \in 2..Len(GetFields(m)) :
               LET f == GetFields(m)[k]
                   unset == IsFieldInstance(a[f.name]) \/ IsNullish(a[f.name])
               IN /\ (unset /\ f.default # Undefined /\ f.default.t # "function")
                       => \A r \in mine : r[f.name] = StoredForm(f.default)
                  /\ (unset /\ f.default # Undefined /\ f.default.t = "function")
                       => /\ clock' = clock + 1
                          /\ \A r \in mine : r[f.name] = TimeStr(clock)
                                             /\ r[f.name] # Null
                  /\ (IsFieldInstance(a[f.name]) /\ f.default = Undefined
                        /\ res'.path = "insert")
                       => f.name \notin res'.cols
    ]_vars

\* a ShopItem was inserted with only its name assigned, after the clock
\* had advanced
C5_Witness ==
  /\ res.op = "save" /\ res.ok /\ res.path = "insert"
  /\ inst[res.slot].model = "ShopItem"
  /\ inst[res.slot].attrs.isActive = FieldObj
  /\ inst[res.slot].attrs.createdAt = FieldObj
  /\ inst[res.slot].attrs.description = FieldObj
  /\ clock = 2

\* C8 (as claimed): with one Post in the table, created from {title:
\* 'Hello'}, filter({isPublished: false}).count() returns 1 while the row is
\* unpublished and 0 once it was saved as published, and
\* get({title: 'Hello'}).isPublished is false after the create.
C8_PostScenario ==
  [][ /\ (/\ res'.op = "count"
          /\ res'.arg = [isPublished |-> Bool(FALSE)]
          /\ Cardinality(db.rows["posts"]) = 1)
         => /\ res'.ok
            /\ \A r \in db.rows["posts"] :
                 res'.n = IF r.isPublished = Num(0) THEN 1 ELSE 0
      /\ (/\ res'.op = "get" /\ res'.found
          /\ res'.arg = [title |-> Str("Hello")]
          /\ res.op = "create")
         => ~Truthy(inst'[res'.slot].attrs.isPublished)
    ]_vars

---------------------------------------------------------------------------
(* A QuerySet in use: the application builds one QuerySet step by step and *)
(* runs its terminal operations against a posts table that already holds   *)
(* rows.                                                                   *)
QueryModels == {"Post"}

\* the rows a posts table can hold: at most one per id
PostRows(k) ==
  { [id |-> Num(k), title |-> t, isPublished |-> p] :
      t \in {Str("Hello"), Str("World")}, p \in {Num(0), Num(1)} }
TableContents ==
  { S \in SUBSET (UNION { PostRows(k) : k \in 1..MaxId }) :
      \A r1 \in S, r2 \in S : r1.id = r2.id => r1 = r2 }

\* the database after Post.createTable() and the saves and deletes that
\* left the rows S
DbWithPosts(S) ==
  [EmptyDb EXCEPT !.schema["posts"] = "Post", !.rows["posts"] = S,
                  !.seq["posts"] = MaxId]

\* the arguments the application passes to filter, orderBy, limit, offset
FilterArgs ==
  { [title |-> Str("Hello")], [isPublished |-> Num(0)],
    [isPublished |-> Bool(FALSE)] }
OrderArgs == { <<"id", "DESC">>, <<"isPublished", "ASC">> }
LimitArgs == {0, 1, 2}
OffsetArgs == {1}

InitQuery ==
  /\ db \in { DbWithPosts(S) : S \in TableContents }
  /\ clock = 0
  /\ inst = [i \in Slots |-> NoInstance]
  /\ qs = NoQuerySet
  /\ res = NoResult
  /\ models = NoModels

\* ModelClass.objects.all(): a new QuerySet
ObjectsAll(m) ==
  /\ qs' = NewQuerySet(m)
  /\ res' = Result("objects.all", "", TRUE, "")
  /\ UNCHANGED << db, clock, inst, models >>

\* q.filter(filters)
Filter(filters) ==
  /\ qs.model # NoModel
  /\ qs' = QsFilter(qs, filters)
  /\ res' = Result("qs.build", "", TRUE, "")
  /\ UNCHANGED << db, clock, inst, models >>

\* q.orderBy(field, direction)
OrderBy(field, dir) ==
  /\ qs.model # NoModel
  /\ qs' = QsOrderBy(qs, field, dir)
  /\ res' = Result("qs.build", "", TRUE, "")
  /\ UNCHANGED << db, clock, inst, models >>

\* q.limit(n)
Limit(n) ==
  /\ qs.model # NoModel
  /\ qs' = QsLimit(qs, n)
  /\ res' = Result("qs.build", "", TRUE, "")
  /\ UNCHANGED << db, clock, inst, models >>

\* q.offset(n)
Offset(n) ==
  /\ qs.model # NoModel
  /\ qs' = QsOffset(qs, n)
  /\ res' = Result("qs.build", "", TRUE, "")
  /\ UNCHANGED << db, clock, inst, models >>

\* q.all()
All ==
  /\ qs.model # NoModel
  /\ \E r \in { QsAll(db, qs) } :
       res' = [Result("qs.all", "", r.ok, r.err) EXCEPT
                 !.list = r.list, !.n = Len(r.list)]
  /\ UNCHANGED << db, clock, inst, qs, models >>

\* q.first()
First ==
  /\ qs.model # NoModel
  /\ \E r \in { QsFirst(db, qs) } :
       /\ qs' = r.qs
       /\ res' = [Result("qs.first", "", r.ok, r.err) EXCEPT
                    !.found = r.found,
                    !.list = IF r.found THEN << r.value >> ELSE << >>]
  /\ UNCHANGED << db, clock, inst, models >>

\* q.count()
Count ==
  /\ qs.model # NoModel
  /\ \E r \in { QsCount(db, qs) } :
       res' = [Result("qs.count", "", r.ok, r.err) EXCEPT !.n = r.changes]
  /\ UNCHANGED << db, clock, inst, qs, models >>

\* q.delete()
DeleteAll ==
  /\ qs.model # NoModel
  /\ \E r \in { QsDelete(db, qs) } :
       /\ db' = r.db
       /\ res' = [Result("qs.delete", "", r.ok, r.err) EXCEPT !.n = r.changes]
  /\ UNCHANGED << clock, inst, qs, models >>

NextQuery ==
  \/ \E m \in QueryModels : ObjectsAll(m)
  \/ \E f \in FilterArgs : Filter(f)
  \/ \E o \in OrderArgs : OrderBy(o[1], o[2])
  \/ \E n \in LimitArgs : Limit(n)
  \/ \E n \in OffsetArgs : Offset(n)
  \/ All
  \/ First
  \/ Count
  \/ DeleteAll

SpecQuery == InitQuery /\ [][NextQuery]_vars

\* the rows of m's table for which every equality of the filter map holds
Matching(d, m, filters) ==
  { r \in RowsOf(d, m) :
      \A k \in DOMAIN filters : r[k] = StoredForm(filters[k]) }

\* C6 (as claimed): count() on a QuerySet returns the number of rows for
\* which all equalities of its filter map hold (all rows for the empty
\* map), whatever orderBy, limit and offset the QuerySet carries.
C6_CountMatchesFilter ==
  [][ res'.op = "qs.count" =>
        /\ res'.ok
        /\ res'.n = Cardinality(Matching(db, qs.model, qs.filters))
    ]_vars

\* C7 (as claimed): delete() on a QuerySet removes exactly the rows matching
\* its filters, returns their number, leaves every other row unchanged, and
\* all() with the same filters then returns the empty sequence.
C7_DeleteRemovesMatching ==
  [][ res'.op = "qs.delete" =>
        LET m == qs.model
            gone == Matching(db, m, qs.filters)
            again == QsAll(db', QsFilter(NewQuerySet(m), qs.filters))
        IN /\ res'.ok
           /\ res'.n = Cardinality(gone)
           /\ RowsOf(db', m) = RowsOf(db, m) \ gone
           /\ again.ok /\ again.list = << >>
    ]_vars

\* C13 (as claimed): all() on a QuerySet whose filter values can be bound
\* returns the matching rows in the requested order (id order when none was
\* requested), without the first m when offset(m) was called and at most n
\* of the rest when limit(n) was called, each clause independently of the
\* other and for every n >= 0 and m >= 0.
C13_LimitOffsetIndependent ==
  [][ (/\ res'.op = "qs.all"
       /\ \A k \in DOMAIN qs.filters : Bindable(qs.filters[k]))
      => LET m == qs.model
             sorted == SortRows(Matching(db, m, qs.filters),
                                IF qs.orderBy = "" THEN "id" ELSE qs.orderBy,
                                IF qs.orderBy = "" THEN "ASC"
                                ELSE qs.orderDirection)
             expected == Page(sorted, qs.limit # Undefined, qs.limit.v,
                              IF qs.offset # Undefined THEN qs.offset.v
                              ELSE 0)
         IN /\ res'.ok
            /\ res'.list = [ k \in 1..Len(expected) |->
                               Hydrate(m, expected[k]) ]
    ]_vars

\* C14 (as claimed): no terminal operation (all, first, count, delete)
\* changes the filters, order, limit or offset accumulated in the QuerySet,
\* so that all() called afterwards on the same QuerySet returns what it
\* would have returned before.
C14_TerminalOpsKeepQuerySet ==
  [][ res'.op \in {"qs.all", "qs.first", "qs.count", "qs.delete"} =>
        /\ qs' = qs
        /\ QsAll(db', qs').list = QsAll(db', qs).list
    ]_vars

---------------------------------------------------------------------------
(* PermissionService                                                       *)
Actions == << "view", "add", "change", "delete" >>

\* hasModelPermission: `${action}_${modelName.toLowerCase()}`
Codename(action, modelName) == action \o "_" \o ToLowerCase(modelName)

\* Permission.objects.get({ id }) found with permission.codename === codename
PermissionMatches(d, permissionId, codename) ==
  \E p \in { ObjectsGet(d, "Permission", [id |-> permissionId]) } :
    p.found /\ p.value.codename = Str(codename)

\* the loop over the user's groups and each group's GroupPermission rows
GroupPermissionHeld(d, userGroups, codename) ==
  \E k \in 1..Len(userGroups) :
    \E gp \in { QsAll(d, QsFilter(NewQuerySet("GroupPermission"),
                                  [groupId |-> userGroups[k].groupId])) } :
      \E j \in 1..Len(gp.list) :
        PermissionMatches(d, gp.list[j].permissionId, codename)

\* hasPermission after the superuser test: direct rows, then groups
HeldDirectlyOrByGroup(d, userPerms, userGroups, codename) ==
  IF ~userPerms.ok THEN "throw"
  ELSE IF \E k \in 1..Len(userPerms.list) :
            PermissionMatches(d, userPerms.list[k].permissionId, codename)
    THEN "yes"
  ELSE IF ~userGroups.ok THEN "throw"
  ELSE IF GroupPermissionHeld(d, userGroups.list, codename) THEN "yes"
  ELSE "no"

\* hasPermission once the user row was looked up
HasPermissionOf(d, user, userId, codename) ==
  IF ~user.ok THEN "throw"
  ELSE IF ~user.found THEN "no"
  ELSE IF Truthy(user.value.isSuperuser) THEN "yes"
  ELSE HeldDirectlyOrByGroup(
         d,
         QsAll(d, QsFilter(NewQuerySet("UserPermission"), [userId |-> userId])),
         QsAll(d, QsFilter(NewQuerySet("UserGroup"), [userId |-> userId])),
         codename)

\* hasPermission(userId, codename): "yes", "no", or "throw" when a query fails
HasPermission(d, userId, codename) ==
  HasPermissionOf(d, ObjectsGet(d, "User", [id |-> userId]), userId, codename)

HasModelPermission(d, userId, action, modelName) ==
  HasPermission(d, userId, Codename(action, modelName))

---------------------------------------------------------------------------
(* The generic admin endpoints /api/admin/models/:modelName/data[/:id]     *)
\* the models @registerAdmin put into the ModelRegistry
Registered == {"Post", "User", "Group"}

\* the query defaults of the list endpoint
DefaultPage == 1
DefaultLimit == 20

\* what a handler answers: HTTP status, the database and clock afterwards,
\* and the instances in the body
Reply(status, d, clk, data) ==
  [status |-> status, db |-> d, clk |-> clk, data |-> data]

\* requireStaff on the verified token payload: 0 lets the handler run
RequireStaff(user) ==
  IF ~user.isStaff /\ ~user.isSuperuser THEN 403 ELSE 0

\* the permission check's outcome as a gate: 403 when it returned false,
\* 500 when it threw
Decide(held) ==
  CASE held = "yes" -> 0
    [] held = "no" -> 403
    [] OTHER -> 500

\* the head of every handler: 404 for an unregistered model, 403 for a
\* non-superuser token whose user lacks the permission, 0 to go on
CheckAccess(d, user, action, modelName) ==
  IF modelName \notin Registered THEN 404
  ELSE IF user.isSuperuser THEN 0
  ELSE Decide(HasModelPermission(d, Num(user.userId), action, modelName))

\* GET .../data once both queries ran: the page and the total
ListReply(d, clk, page, total) ==
  IF page.ok /\ total.ok THEN Reply(200, d, clk, page.list)
  ELSE Reply(500, d, clk, << >>)

\* toJSON(): the own properties that are not Field descriptors
ToJSON(instance) ==
  [a \in { a \in DOMAIN instance : ~IsFieldInstance(instance[a]) } |->
     instance[a]]

\* metadata.adminOptions.excludeFields || [] of the registered models
ExcludeFields(m) == IF m = "User" THEN {"password"} ELSE {}

\* const data = instance.toJSON(); for (key of excluded) delete data[key]
Safe(m, instance) ==
  [a \in DOMAIN ToJSON(instance) \ ExcludeFields(m) |-> instance[a]]

\* instances.map(...) of the list handler
SafeInstances(m, page) ==
  [page EXCEPT !.list = [k \in DOMAIN page.list |-> Safe(m, page.list[k])]]

\* bcrypt.hash(password, salt) as stored, and what bcrypt.compare accepts
Hash(password) == Str("bcrypt:" \o password.v)

\* the create and update handlers' treatment of the body: a non-empty
\* password is hashed into the instance by setPassword when the model has
\* one and removed from the body, an empty one is removed; then
\* Object.assign(instance, body)
AssignBody(m, instance, body) ==
  IF "password" \notin DOMAIN body THEN body @@ instance
  ELSE IF Truthy(body.password) /\ m = "User"
    THEN [a \in DOMAIN body \ {"password"} |-> body[a]]
           @@ [password |-> Hash(body.password)] @@ instance
  ELSE IF body.password = Str("") \/ body.password = Undefined
    THEN [a \in DOMAIN body \ {"password"} |-> body[a]] @@ instance
  ELSE body @@ instance

\* GET .../data: objects.all().orderBy('id', 'DESC').offset((page - 1) *
\* limit).limit(limit).all() and objects.count(), with the default paging
ListHandler(d, clk, m) ==
  ListReply(d, clk,
            SafeInstances(m,
              QsAll(d, QsLimit(QsOffset(QsOrderBy(NewQuerySet(m), "id", "DESC"),
                                        (DefaultPage - 1) * DefaultLimit),
                               DefaultLimit))),
            QsCount(d, NewQuerySet(m)))

\* GET .../data/:id once the instance was looked up
GetReply(m, d, clk, g) ==
  IF ~g.ok THEN Reply(500, d, clk, << >>)
  ELSE IF ~g.found THEN Reply(404, d, clk, << >>)
  ELSE Reply(200, d, clk, << Safe(m, g.value) >>)

GetHandler(d, clk, m, id) ==
  GetReply(m, d, clk, ObjectsGet(d, m, [id |-> Num(id)]))

\* the end of the create and update handlers: instance.save() returned or
\* threw
SaveReply(status, d, clk, r) ==
  IF r.ok THEN Reply(status, r.db, r.clk, << ToJSON(r.inst) >>)
  ELSE Reply(500, d, clk, << >>)

\* POST .../data: Object.assign(new Model(), body); instance.save();
\* reply.code(201).send({ data: instance })
CreateHandler(d, clk, m, body) ==
  SaveReply(201, d, clk,
            ModelSave(d, m, AssignBody(m, NewInstance(m), body), clk))

\* PUT .../data/:id once the instance was looked up:
\* Object.assign(instance, body); instance.save()
UpdateFound(d, clk, m, g, body) ==
  IF ~g.ok THEN Reply(500, d, clk, << >>)
  ELSE IF ~g.found THEN Reply(404, d, clk, << >>)
  ELSE SaveReply(200, d, clk,
                 ModelSave(d, m, AssignBody(m, g.value, body), clk))

UpdateHandler(d, clk, m, id, body) ==
  UpdateFound(d, clk, m, ObjectsGet(d, m, [id |-> Num(id)]), body)

\* the end of the delete handler: instance.delete() returned or threw
DeleteReply(d, clk, r) ==
  IF r.ok THEN Reply(204, r.db, clk, << >>) ELSE Reply(500, d, clk, << >>)

\* DELETE .../data/:id once the instance was looked up
DeleteFound(d, clk, m, g) ==
  IF ~g.ok THEN Reply(500, d, clk, << >>)
  ELSE IF ~g.found THEN Reply(404, d, clk, << >>)
  ELSE DeleteReply(d, clk, ModelDelete(d, m, g.value))

DeleteHandler(d, clk, m, id) ==
  DeleteFound(d, clk, m, ObjectsGet(d, m, [id |-> Num(id)]))

\* a request to one of the five endpoints: preHandler, access check, handler
Endpoints == {"list", "get", "create", "update", "delete"}
EndpointAction(e) ==
  CASE e \in {"list", "get"} -> "view"
    [] e = "create" -> "add"
    [] e = "update" -> "change"
    [] e = "delete" -> "delete"

\* preHandler, then the handler's access check: 0 when the request passes
Gate(d, user, e, m) ==
  IF RequireStaff(user) # 0 THEN RequireStaff(user)
  ELSE CheckAccess(d, user, EndpointAction(e), m)

\* the reply of a request: the gate's refusal, or what the handler body does
Serve(d, clk, gate, reply) ==
  IF gate # 0 THEN Reply(gate, d, clk, << >>) ELSE reply

---------------------------------------------------------------------------
(* The admin API in use: staff, a superuser and a plain user send requests *)
(* to the generic endpoints of the registered model Post.                  *)
AdminModels ==
  {"User", "Permission", "Group", "UserPermission", "GroupPermission",
   "UserGroup", "Post"}

\* createTable() for each model of the set
Migrate(classes) ==
  [EmptyDb EXCEPT !.schema = [T \in TableNames |->
     IF \E m \in classes : TableName(m) = T
       THEN CHOOSE m \in classes : TableName(m) = T ELSE NoTable]]

\* a stored User row
UserRow(k, name, staff, super) ==
  [id |-> Num(k), username |-> Str(name), email |-> Str(name \o "@x.io"),
   password |-> Hash(Str("secret")), firstName |-> Null, lastName |-> Null,
   isActive |-> Num(1), isStaff |-> Num(staff), isSuperuser |-> Num(super),
   dateJoined |-> TimeStr(0), lastLogin |-> Null]

\* user 1 is staff, user 2 a superuser, user 3 neither
Users == { UserRow(1, UserNames[1], 1, 0), UserRow(2, UserNames[2], 1, 1),
           UserRow(3, UserNames[3], 0, 0) }

\* the payload login signs into the access token of a stored user
TokenPayload(u) ==
  [userId |-> u.id.v, isStaff |-> Truthy(u.isStaff),
   isSuperuser |-> Truthy(u.isSuperuser)]
Tokens == { TokenPayload(u) : u \in Users }

\* the rows createModelPermissions('Post', 'Posts') creates
PostPermissions ==
  { [id |-> Num(k), name |-> Str("Can " \o Actions[k] \o " Posts"),
     codename |-> Str(Codename(Actions[k], "Post")), modelName |-> Str("Post")] :
      k \in 1..Len(Actions) }

\* the direct grants user 1 may hold, as sets of permission ids
GrantSets == { {}, {1}, {2}, {3}, {4}, {1, 2} }

\* the database of a deployment: the group editors holds change_post;
\* user 1 holds the permissions `grants` directly and is a member of
\* editors iff `member`; one Post exists
AdminDb(grants, member) ==
  [Migrate(AdminModels) EXCEPT
     !.rows["users"] = Users,
     !.seq["users"] = 3,
     !.rows["permissions"] = PostPermissions,
     !.seq["permissions"] = 4,
     !.rows["groups"] =
        { [id |-> Num(1), name |-> Str("editors"), description |-> Null] },
     !.seq["groups"] = 1,
     !.rows["group_permissions"] =
        { [id |-> Num(1), groupId |-> Num(1), permissionId |-> Num(3)] },
     !.seq["group_permissions"] = 1,
     !.rows["user_groups"] =
        IF member THEN { [id |-> Num(1), userId |-> Num(1), groupId |-> Num(1)] }
        ELSE {},
     !.seq["user_groups"] = IF member THEN 1 ELSE 0,
     !.rows["user_permissions"] =
        { [id |-> Num(p), userId |-> Num(1), permissionId |-> Num(p)] :
            p \in grants },
     !.seq["user_permissions"] = SetMax(grants),
     !.rows["posts"] =
        { [id |-> Num(1), title |-> Str("Hello"), isPublished |-> Num(0)] },
     !.seq["posts"] = 1]

InitAdmin ==
  /\ db \in { AdminDb(g, b) : g \in GrantSets, b \in BOOLEAN }
  /\ clock = 0
  /\ inst = [i \in Slots |-> NoInstance]
  /\ qs = NoQuerySet
  /\ res = NoResult
  /\ models = NoModels

\* the model names, ids and JSON bodies the clients send
RequestModels == {"Post", "Tag"}
RequestIds == 1..MaxId
CreateBodies ==
  { [title |-> Str("New")], [id |-> Num(1), title |-> Str("Edited")] }
UpdateBodies == { [title |-> Str("Edited")] }

\* one request served from receipt to reply r
Request(e, user, m, r) ==
  /\ r.db.seq[TableName("Post")] <= MaxId
  /\ r.clk <= MaxClock
  /\ db' = r.db
  /\ clock' = r.clk
  /\ res' = [Result(e, "", r.status < 400, "") EXCEPT
               !.status = r.status, !.list = r.data,
               !.arg = [user |-> user, model |-> m]]
  /\ UNCHANGED << inst, qs, models >>

\* GET /api/admin/models/:modelName/data
ListData(user, m) ==
  Request("list", user, m,
          Serve(db, clock, Gate(db, user, "list", m),
                ListHandler(db, clock, m)))

\* GET /api/admin/models/:modelName/data/:id
GetInstance(user, m, id) ==
  Request("get", user, m,
          Serve(db, clock, Gate(db, user, "get", m),
                GetHandler(db, clock, m, id)))

\* POST /api/admin/models/:modelName/data
CreateInstance(user, m, body) ==
  Request("create", user, m,
          Serve(db, clock, Gate(db, user, "create", m),
                CreateHandler(db, clock, m, body)))

\* PUT /api/admin/models/:modelName/data/:id
UpdateInstance(user, m, id, body) ==
  Request("update", user, m,
          Serve(db, clock, Gate(db, user, "update", m),
                UpdateHandler(db, clock, m, id, body)))

\* DELETE /api/admin/models/:modelName/data/:id
DeleteInstance(user, m, id) ==
  Request("delete", user, m,
          Serve(db, clock, Gate(db, user, "delete", m),
                DeleteHandler(db, clock, m, id)))

NextAdmin ==
  \/ \E u \in Tokens, m \in RequestModels : ListData(u, m)
  \/ \E u \in Tokens, m \in RequestModels, k \in RequestIds :
       GetInstance(u, m, k)
  \/ \E u \in Tokens, m \in RequestModels, b \in CreateBodies :
       CreateInstance(u, m, b)
  \/ \E u \in Tokens, m \in RequestModels, k \in RequestIds, b \in UpdateBodies :
       UpdateInstance(u, m, k, b)
  \/ \E u \in Tokens, m \in RequestModels, k \in RequestIds :
       DeleteInstance(u, m, k)

SpecAdmin == InitAdmin /\ [][NextAdmin]_vars

\* user u holds the permission codename directly or through a group
Holds(d, u, codename) ==
  \E p \in d.rows["permissions"] :
    /\ p.codename = Str(codename)
    /\ \/ \E up \in d.rows["user_permissions"] :
            up.userId = Num(u) /\ up.permissionId = p.id
       \/ \E ug \in d.rows["user_groups"], gp \in d.rows["group_permissions"] :
            /\ ug.userId = Num(u) /\ ug.groupId = gp.groupId
            /\ gp.permissionId = p.id

\* C9 (as claimed): for a non-superuser staff user and the registered model
\* Post, an endpoint succeeds only if the user holds the endpoint's
\* permission; without it create, update and delete answer 403; and a user
\* without change_post (for instance one granted add_post alone) changes no
\* existing Post, one without delete_post removes none.
C9_PermissionGating ==
  [][ (/\ res'.op \in Endpoints
       /\ res'.arg.model = "Post"
       /\ res'.arg.user.isStaff /\ ~res'.arg.user.isSuperuser)
      => LET u == res'.arg.user.userId
             held(a) == Holds(db, u, Codename(a, "Post"))
         IN /\ res'.status \in {200, 201, 204} => held(EndpointAction(res'.op))
            /\ (res'.op \in {"create", "update", "delete"}
                  /\ ~held(EndpointAction(res'.op)))
                 => res'.status = 403
            /\ ~held("change") =>
                 \A r \in RowsOf(db, "Post") :
                   r.id \in RowIds(db', "Post") => r \in RowsOf(db', "Post")
            /\ ~held("delete") => RowIds(db, "Post") \subseteq RowIds(db', "Post")
    ]_vars

---------------------------------------------------------------------------
(* Foreign keys in use: an application with a parent model and a child     *)
(* model that declares a ForeignKey to it creates child rows and deletes   *)
(* parent rows.                                                            *)
ParentModels == {"User", "Category", "ShopCategory"}
ChildModels == {"Teacher", "Student", "BlogPost"}

\* the model class the author of child model c relates its ForeignKey to
Related(c) ==
  CASE c \in {"Teacher", "Student"} -> "User"
    [] c = "BlogPost" -> "Category"

\* the applications: the models each one defines
Applications ==
  { {"User", "Teacher"}, {"User", "Student"}, {"Category", "BlogPost"},
    {"Category", "ShopCategory", "BlogPost"} }

\* the rows the parent tables hold
ParentRows(m) ==
  IF m = "User"
    THEN { UserRow(k, UserNames[k], 0, 0) : k \in 1..MaxId }
    ELSE { [id |-> Num(k), name |-> Str("news"), slug |-> Str(Slugs[k])] :
             k \in 1..MaxId }

\* the database after createTable() for the application's models and the
\* creation of its parent rows
FkDb(classes) ==
  [Migrate(classes) EXCEPT
     !.rows = [T \in TableNames |->
                 IF \E m \in classes \cap ParentModels : TableName(m) = T
                   THEN ParentRows(CHOOSE m \in classes \cap ParentModels :
                                     TableName(m) = T)
                   ELSE {}],
     !.seq = [T \in TableNames |->
                IF \E m \in classes \cap ParentModels : TableName(m) = T
                  THEN MaxId ELSE 0]]

InitFk ==
  /\ db \in { FkDb(app) : app \in Applications }
  /\ clock = 0
  /\ inst = [i \in Slots |-> NoInstance]
  /\ qs = NoQuerySet
  /\ res = NoResult
  /\ models = NoModels

\* on the models whose tables exist: Child.objects.create(data) into handle
\* a, Parent.objects.get({id}) into handle b, b.delete()
NextFk ==
  \/ \E m \in ChildModels : \E data \in CreateData(m) :
       TableExists(db, TableName(m)) /\ Create("a", m, data)
  \/ \E m \in ParentModels : \E f \in IdFilters :
       TableExists(db, TableName(m)) /\ Get("b", m, f)
  \/ Delete("b")

SpecFk == InitFk /\ [][NextFk]_vars

\* C10 (as claimed): when delete() is called on a persisted parent
\* instance, then for every child model whose ForeignKey relates it to that
\* parent model: with onDelete CASCADE the parent row and all child rows that
\* name it are removed; with onDelete RESTRICT, while such rows exist, the
\* delete fails and changes nothing. The parent may override getTableName.
C10_ForeignKeyActions ==
  [][ (/\ res'.op = "delete" /\ res'.slot = "b"
       /\ inst["b"].model \in ParentModels
       /\ inst["b"].attrs.id \in RowIds(db, inst["b"].model))
      => LET p == inst["b"].model
             id == inst["b"].attrs.id
         IN \A c \in { c \in ChildModels :
                         TableExists(db, TableName(c)) /\ Related(c) = p } :
              \A f \in { f \in Range(GetFields(c)) : f.type = "ForeignKey" } :
                LET dependents == { r \in RowsOf(db, c) : r[f.name] = id }
                IN /\ f.onDelete = "CASCADE" =>
                        /\ res'.ok
                        /\ id \notin RowIds(db', p)
                        /\ dependents \cap RowsOf(db', c) = {}
                   /\ (f.onDelete = "RESTRICT" /\ dependents # {}) =>
                        ~res'.ok /\ db' = db
    ]_vars

---------------------------------------------------------------------------
(* ModelRegistry: registerModel, getModel, unregisterModel, clear          *)
\* AdminOptions a model is registered with
NoOptions == [displayName |-> "", excludeFields |-> {}]
AdminOptions ==
  { NoOptions, [displayName |-> "Shown", excludeFields |-> {"password"}] }

\* the FieldMetadata registerModel derives from one field
FieldMetadata(f) ==
  [name |-> f.name, type |-> f.type, required |-> ~f.nullable,
   unique |-> f.unique, default |-> f.default, nullable |-> f.nullable,
   relatedModel |-> f.relatedModel, onDelete |-> f.onDelete]

\* the entries of Object.entries(model.getFields()), in order
FieldsMetadata(fs) == [k \in DOMAIN fs |-> FieldMetadata(fs[k])]

\* the ModelMetadata registerModel builds
ModelMetadata(m, options) ==
  [t |-> "metadata", model |-> m, tableName |-> TableName(m),
   displayName |-> IF options.displayName = "" THEN ClassName(m)
                   ELSE options.displayName,
   fields |-> FieldsMetadata(GetFields(m)), adminOptions |-> options]

\* registerModel keeping an entry the name already has
RegisterModel_KeepFirst(reg, m, options) ==
  IF reg[ClassName(m)] = Undefined
    THEN [reg EXCEPT ![ClassName(m)] = ModelMetadata(m, options)]
    ELSE reg

\* registerModel: this.models.set(model.name, metadata)
RegisterModel(reg, m, options) ==
  [reg EXCEPT ![ClassName(m)] = ModelMetadata(m, options)]

\* getModel: this.models.get(modelName)
GetModel(reg, name) == IF name \in DOMAIN reg THEN reg[name] ELSE Undefined

\* unregisterModel: this.models.delete(modelName)
UnregisterModel(reg, name) ==
  [n \in DOMAIN reg |-> IF n = name THEN Undefined ELSE reg[n]]

\* the classes the applications register and the names they look up
RegistryModels == {"Post", "User", "Category", "ShopCategory", "BlogPost"}
LookupNames == { ClassName(m) : m \in RegistryModels } \cup {"Tag"}

InitRegistry ==
  /\ db = EmptyDb
  /\ clock = 0
  /\ inst = [i \in Slots |-> NoInstance]
  /\ qs = NoQuerySet
  /\ res = NoResult
  /\ models = NoModels

Register(m, options) ==
  /\ models' = RegisterModel(models, m, options)
  /\ res' = [Result("registerModel", "", TRUE, "") EXCEPT
               !.path = m, !.arg = options]
  /\ UNCHANGED << db, clock, inst, qs >>

Unregister(name) ==
  /\ models' = UnregisterModel(models, name)
  /\ res' = [Result("unregisterModel", "", TRUE, "") EXCEPT !.path = name]
  /\ UNCHANGED << db, clock, inst, qs >>

\* clear: this.models.clear()
Clear ==
  /\ models' = NoModels
  /\ res' = Result("clear", "", TRUE, "")
  /\ UNCHANGED << db, clock, inst, qs >>

\* getModel(name) called by a route
Lookup(name) ==
  /\ res' = [Result("getModel", "", TRUE, "") EXCEPT
               !.path = name, !.found = GetModel(models, name) # Undefined]
  /\ UNCHANGED << db, clock, inst, qs, models >>

NextRegistry ==
  \/ \E m \in RegistryModels : \E options \in AdminOptions :
       Register(m, options)
  \/ \E name \in LookupNames : Unregister(name)
  \/ Clear
  \/ \E name \in LookupNames : Lookup(name)

SpecRegistry == InitRegistry /\ [][NextRegistry]_vars

\* C11: a registerModel step makes getModel of the class's name return the
\* metadata of exactly that registration (model, table, options), replacing
\* whatever the name had; an unregisterModel step makes getModel of that name
\* return undefined; a clear step does so for every name; each of them leaves
\* the entries of all other names as they were; and in every entry the first
\* field is the implicit auto-increment id.
C11_RegistryInvariant ==
  [][ /\ res'.op = "registerModel" =>
           /\ GetModel(models', ClassName(res'.path)).model = res'.path
           /\ GetModel(models', ClassName(res'.path)).tableName =
                TableName(res'.path)
           /\ GetModel(models', ClassName(res'.path)).adminOptions = res'.arg
           /\ \A n \in LookupNames \ {ClassName(res'.path)} :
                GetModel(models', n) = GetModel(models, n)
      /\ res'.op = "unregisterModel" =>
           /\ GetModel(models', res'.path) = Undefined
           /\ \A n \in LookupNames \ {res'.path} :
                GetModel(models', n) = GetModel(models, n)
      /\ res'.op = "clear" =>
           \A n \in LookupNames : GetModel(models', n) = Undefined
      /\ res'.op = "getModel" =>
           /\ models' = models
           /\ res'.found = (GetModel(models, res'.path) # Undefined)
      /\ \A n \in LookupNames :
           GetModel(models', n) # Undefined =>
             /\ GetModel(models', n).fields[1].name = "id"
             /\ GetModel(models', n).fields[1].type = "AutoField"
    ]_vars

\* a name registered by one class was registered again by a second class of
\* the same name with other options, and the entry is the second one's
C11_Witness ==
  /\ res.op = "registerModel"
  /\ res.path = "ShopCategory"
  /\ res.arg # NoOptions
  /\ models["Category"] # Undefined
  /\ models["Category"].model = "ShopCategory"
  /\ models["Post"] # Undefined

---------------------------------------------------------------------------
(* Server bootstrap: initializeDatabase, then users are created from the   *)
(* command line and the admin endpoints serve requests                     *)
\* initializeDatabase: User.createTable(); EmailVerificationToken
\* .createTable(); PasswordResetToken.createTable(); RefreshToken
\* .createTable()
InitializeDatabase(d) ==
  ExecCreateTable(
    ExecCreateTable(
      ExecCreateTable(ExecCreateTable(d, "User"), "EmailVerificationToken"),
      "PasswordResetToken"),
    "RefreshToken")

\* the models the auth service, the permission service and the admin
\* routes query
BuiltinModels ==
  {"User", "Group", "Permission", "UserPermission", "GroupPermission",
   "UserGroup", "EmailVerificationToken", "PasswordResetToken",
   "RefreshToken"}

InitBoot ==
  /\ db = EmptyDb
  /\ clock = 0
  /\ inst = [i \in Slots |-> NoInstance]
  /\ qs = NoQuerySet
  /\ res = NoResult
  /\ models = NoModels

\* start(): await initializeDatabase()
Bootstrap ==
  /\ res.op = ""
  /\ db' = InitializeDatabase(db)
  /\ res' = Result("initializeDatabase", "", TRUE, "")
  /\ UNCHANGED << clock, inst, qs, models >>

\* after bootstrap: a staff user or a superuser is created, and the users
\* that exist send requests with their tokens
NextBoot ==
  \/ Bootstrap
  \/ \E data \in CreateData("User") :
       res.op # "" /\ Create("a", "User", data)
  \/ \E u \in db.rows["users"] : \E m \in Registered :
       ListData(TokenPayload(u), m)
  \/ \E u \in db.rows["users"] : \E m \in Registered : \E k \in RequestIds :
       GetInstance(TokenPayload(u), m, k)
  \/ \E u \in db.rows["users"] : \E m \in Registered : \E k \in RequestIds :
       DeleteInstance(TokenPayload(u), m, k)

SpecBoot == InitBoot /\ [][NextBoot]_vars

\* C12 (as claimed): once initializeDatabase has completed, a table exists
\* for every model registered in the ModelRegistry and for every model the
\* built-in routes and services query, and no request to an admin endpoint
\* fails with a server error.
C12_SyncOnStart ==
  res.op # "" =>
    /\ \A m \in Registered \cup BuiltinModels : TableExists(db, TableName(m))
    /\ res.op \in Endpoints => res.status # 500

---------------------------------------------------------------------------
(* User management: the generic admin endpoints on the registered model    *)
(* User, PUT /api/admin/users/:id, and POST /auth/login                    *)
\* requireSuperuser on the verified token payload: 0 lets the handler run
RequireSuperuser(user) == IF ~user.isSuperuser THEN 403 ELSE 0

\* PUT /api/admin/users/:id: the fields the handler copies from the body
ApplyUpdates(user, updates) ==
  [a \in { a \in DOMAIN updates \cap {"username", "email"} :
             Truthy(updates[a]) } |-> updates[a]]
  @@ [a \in DOMAIN updates \cap {"firstName", "lastName", "isActive",
                                 "isStaff", "isSuperuser"} |-> updates[a]]
  @@ (IF "password" \in DOMAIN updates /\ Truthy(updates.password)
        THEN [password |-> Hash(updates.password)] ELSE << >>)
  @@ user

\* ... user.save(); reply.send({ user })
UserUpdateFound(d, clk, g, updates) ==
  IF ~g.ok THEN Reply(500, d, clk, << >>)
  ELSE IF ~g.found THEN Reply(404, d, clk, << >>)
  ELSE SaveReply(200, d, clk,
                 ModelSave(d, "User", ApplyUpdates(g.value, updates), clk))

UserUpdateHandler(d, clk, id, updates) ==
  UserUpdateFound(d, clk, ObjectsGet(d, "User", [id |-> Num(id)]), updates)

\* id.toString()
NumStr(n) == << "1", "2", "3", "4", "5" >>[n]

\* jwt.sign({ userId }, secret, { expiresIn }): determined by the user and
\* the time of issue
RefreshJwt(userId, clk) ==
  Str("jwt." \o NumStr(userId) \o "." \o TimeStr(clk).v)

\* generateRefreshToken: RefreshToken.objects.create({ userId, token,
\* expiresAt })
GenerateRefreshToken(d, clk, user) ==
  ObjectsCreate(d, "RefreshToken",
                [userId |-> Str(NumStr(user.id.v)),
                 token |-> RefreshJwt(user.id.v, clk),
                 expiresAt |-> Str("later")], clk)

\* login once the refresh token was stored: the result carries
\* user.toJSON(); a throw is answered 400 by the route
LoginIssued(d, clk, user, t) ==
  IF t.ok THEN Reply(200, t.db, t.clk, << ToJSON(user) >>)
  ELSE Reply(400, d, clk, << >>)

\* login once lastLogin was saved
LoginSaved(d, clk, s) ==
  IF s.ok THEN LoginIssued(d, clk, s.inst, GenerateRefreshToken(s.db, s.clk, s.inst))
  ELSE Reply(400, d, clk, << >>)

\* (variant: login does not look at isActive)
LoginFound_AnyUser(d, clk, g, password) ==
  IF ~g.ok THEN Reply(400, d, clk, << >>)
  ELSE IF ~g.found THEN Reply(401, d, clk, << >>)
  ELSE IF Hash(password) # g.value.password THEN Reply(401, d, clk, << >>)
  ELSE LoginSaved(d, clk,
                  ModelSave(d, "User",
                            [g.value EXCEPT !.lastLogin = TimeStr(clk)], clk))

\* AuthService.login behind POST /auth/login
LoginFound(d, clk, g, password) ==
  IF ~g.ok THEN Reply(400, d, clk, << >>)
  ELSE IF ~g.found THEN Reply(401, d, clk, << >>)
  ELSE IF Hash(password) # g.value.password THEN Reply(401, d, clk, << >>)
  ELSE IF ~Truthy(g.value.isActive) THEN Reply(401, d, clk, << >>)
  ELSE LoginSaved(d, clk,
                  ModelSave(d, "User",
                            [g.value EXCEPT !.lastLogin = TimeStr(clk)], clk))

LoginHandler(d, clk, email, password) ==
  LoginFound(d, clk, ObjectsGet(d, "User", [email |-> email]), password)

\* refreshAccessToken once the user was looked up: a new access token
RefreshUser(d, clk, u) ==
  IF ~u.ok \/ ~u.found THEN Reply(401, d, clk, << >>)
  ELSE Reply(200, d, clk, << [accessToken |-> TokenPayload(u.value)] >>)

\* refreshAccessToken once the token record was looked up; isValid() is
\* !this.revoked && !this.isExpired(), and no token expires within the
\* time modelled
RefreshRecord(d, clk, rec) ==
  IF ~rec.ok \/ ~rec.found THEN Reply(401, d, clk, << >>)
  ELSE IF Truthy(rec.value.revoked) THEN Reply(401, d, clk, << >>)
  ELSE RefreshUser(d, clk,
                   ObjectsGet(d, "User",
                              [id |-> Num(CHOOSE k \in 1..5 :
                                            NumStr(k) = rec.value.userId.v)]))

\* AuthService.refreshAccessToken behind POST /auth/refresh: jwt.verify
\* throws for a token that was not signed here
RefreshAccessToken(d, clk, refreshToken) ==
  IF refreshToken = Str("forged") THEN Reply(401, d, clk, << >>)
  ELSE RefreshRecord(d, clk,
                     ObjectsGet(d, "RefreshToken", [token |-> refreshToken]))

\* the rows createModelPermissions('User', 'Users') creates
UserModelPermissions ==
  { [r EXCEPT !.codename = Str(Codename(Actions[r.id.v], "User")),
              !.modelName = Str("User")] : r \in PostPermissions }

\* a deployment whose staff user 1 holds the User permissions `grants`
UsersDb(grants) ==
  [AdminDb(grants, FALSE) EXCEPT !.rows["permissions"] = UserModelPermissions,
                                 !.schema["refresh_tokens"] = "RefreshToken"]

InitUsers ==
  /\ db \in { UsersDb(g) : g \in { {}, {1, 2, 3} } }
  /\ clock = 0
  /\ inst = [i \in Slots |-> NoInstance]
  /\ qs = NoQuerySet
  /\ res = NoResult
  /\ models = NoModels

\* what the clients send
NoUser == [userId |-> 0, isStaff |-> FALSE, isSuperuser |-> FALSE]
UserBodies ==
  { [username |-> Str("guest"), email |-> Str("guest@x.io"),
     password |-> Str("secret")] }
UserUpdates == { [isSuperuser |-> Bool(TRUE)], [password |-> Str("other")] }
Credentials ==
  { [email |-> Str(UserNames[k] \o "@x.io"), password |-> Str(p)] :
      k \in {2, 3}, p \in {"secret", "wrong"} }

\* PUT /api/admin/users/:id
UpdateUser(user, id, updates) ==
  Request("userUpdate", user, "User",
          Serve(db, clock, RequireSuperuser(user),
                UserUpdateHandler(db, clock, id, updates)))

\* POST /auth/login
Login(data) ==
  Request("login", NoUser, "User",
          LoginHandler(db, clock, data.email, data.password))

\* POST /auth/refresh
Refresh(refreshToken) ==
  Request("refresh", [token |-> refreshToken], "RefreshToken",
          RefreshAccessToken(db, clock, refreshToken))

NextUsers ==
  \/ \E u \in Tokens : ListData(u, "User")
  \/ \E u \in Tokens, k \in RequestIds : GetInstance(u, "User", k)
  \/ \E u \in Tokens, b \in UserBodies : CreateInstance(u, "User", b)
  \/ \E u \in Tokens, k \in RequestIds, b \in UserUpdates :
       UpdateInstance(u, "User", k, b)
  \/ \E u \in Tokens, k \in RequestIds, b \in UserUpdates :
       UpdateUser(u, k, b)
  \/ \E data \in Credentials : Login(data)
  \/ \E t \in { r.token : r \in db.rows["refresh_tokens"] }
               \cup {Str("forged")} : Refresh(t)

SpecUsers == InitUsers /\ [][NextUsers]_vars

\* C15 (as claimed): no response that carries User instances (list, get,
\* create, update, user update, login) contains the field password, which
\* the User model is registered to exclude.
C15_PasswordNeverSerialized ==
  (res.op \in Endpoints \cup {"userUpdate", "login"}
     /\ res.arg.model = "User") =>
    \A k \in DOMAIN res.list : "password" \notin DOMAIN res.list[k]

---------------------------------------------------------------------------
(* The preHandler hooks authenticate, requireAuth, requireStaff and         *)
(* requireSuperuser, on the Authorization header of a request               *)
\* a request after the hooks ran so far: the status already sent (0: none)
\* and request.user
Arrived == [sent |-> 0, user |-> Undefined]

\* reply.code(status).send(...) where a later reply overwrote the sent one
Send_LastWins(req, status) == [req EXCEPT !.sent = status]

\* reply.code(status).send(...): a reply that was already sent stays
Send(req, status) ==
  IF req.sent # 0 THEN req ELSE [req EXCEPT !.sent = status]

\* authenticate: 401 without a Bearer header or when verifyToken returns
\* null, else request.user = the token's payload
Authenticate(req, header) ==
  IF header.kind # "bearer" THEN Send(req, 401)
  ELSE [req EXCEPT !.user = header.payload]

\* requireAuth: await authenticate; if (!request.user) 401
RequireAuth(req, header) ==
  IF Authenticate(req, header).user = Undefined
    THEN Send(Authenticate(req, header), 401)
    ELSE Authenticate(req, header)

\* the role test of requireStaff / requireSuperuser on what requireAuth left
RoleTest(req, refused) == IF refused THEN Send(req, 403) ELSE req

\* requireStaff: await requireAuth; if (!user?.isStaff && !user?.isSuperuser)
\* 403
RequireStaffHook(header) ==
  RoleTest(RequireAuth(Arrived, header),
           RequireAuth(Arrived, header).user = Undefined
             \/ RequireStaff(header.payload) # 0)

\* requireSuperuser: await requireAuth; if (!user?.isSuperuser) 403
RequireSuperuserHook(header) ==
  RoleTest(RequireAuth(Arrived, header),
           RequireAuth(Arrived, header).user = Undefined
             \/ RequireSuperuser(header.payload) # 0)

\* the route: the handler runs only when the preHandler sent no reply
Route(hook, access) == IF hook.sent # 0 THEN hook.sent ELSE access

\* the Authorization headers the clients send: none, a token that does not
\* verify, the access token of a stored user
Headers ==
  { [kind |-> k, payload |-> NoUser] : k \in {"none", "invalid"} }
    \cup { [kind |-> "bearer", payload |-> t] : t \in Tokens }

\* a request to a generic endpoint of the model User (guarded by
\* requireStaff)
StaffRoute(e, header, reply) ==
  Request(e, header, "User",
          Serve(db, clock,
                Route(RequireStaffHook(header),
                      CheckAccess(db, header.payload, EndpointAction(e),
                                  "User")),
                reply))

\* a request to PUT /api/admin/users/:id (guarded by requireSuperuser)
SuperuserRoute(header, reply) ==
  Request("userUpdate", header, "User",
          Serve(db, clock, Route(RequireSuperuserHook(header), 0), reply))

NextGates ==
  \/ \E h \in Headers : StaffRoute("list", h, ListHandler(db, clock, "User"))
  \/ \E h \in Headers, k \in RequestIds, b \in UserUpdates :
       StaffRoute("update", h, UpdateHandler(db, clock, "User", k, b))
  \/ \E h \in Headers, k \in RequestIds, b \in UserUpdates :
       SuperuserRoute(h, UserUpdateHandler(db, clock, k, b))

SpecGates == InitUsers /\ [][NextGates]_vars

\* C16: a request without a valid token is answered 401 and changes
\* nothing; a request whose token's user lacks the route's role (staff or
\* superuser for the generic endpoints, superuser for the user endpoints) is
\* answered 403 and changes nothing; so a reply other than 401/403, which
\* only the handler produces, goes to a valid token with the role.
C16_RoleGates ==
  [][ res'.op \in {"list", "update", "userUpdate"} =>
        LET h == res'.arg.user
            role == IF res'.op = "userUpdate" THEN h.payload.isSuperuser
                    ELSE h.payload.isStaff \/ h.payload.isSuperuser
        IN /\ h.kind # "bearer" => res'.status = 401 /\ db' = db
           /\ (h.kind = "bearer" /\ ~role) => res'.status = 403 /\ db' = db
           /\ res'.status \notin {401, 403} => h.kind = "bearer" /\ role
    ]_vars

\* an anonymous request to the user endpoint was answered 401, after a
\* superuser's request had run a handler that changed user 1's password
C16_Witness ==
  /\ res.op = "userUpdate"
  /\ res.arg.user.kind = "none"
  /\ res.status = 401
  /\ \E r \in db.rows["users"] : r.id = Num(1) /\ r.password = Hash(Str("other"))

\* C18 (as claimed): a successful refresh invalidates the refresh token
\* that was presented, so that presenting it again fails, and stores a new
\* refresh token.
C18_RefreshTokenRotation ==
  [][ (res'.op = "refresh" /\ res'.status = 200)
      => /\ RefreshAccessToken(db', clock', res'.arg.user.token).status # 200
         /\ db'.rows["refresh_tokens"] \ db.rows["refresh_tokens"] # {}
    ]_vars

\* C17 (as claimed): every request of a non-superuser to a generic admin
\* endpoint with modelName User, Group or Permission is answered 403 and
\* changes nothing, whatever permissions the user holds; so no non-superuser
\* creates a user or changes a user's isStaff or isSuperuser flag.
C17_AuthModelsSuperuserOnly ==
  [][ (/\ res'.op \in Endpoints
       /\ res'.arg.model \in {"User", "Group", "Permission"}
       /\ ~res'.arg.user.isSuperuser)
      => /\ res'.status = 403
         /\ db' = db
    ]_vars

---------------------------------------------------------------------------
(* User-permission, user-group and group-permission association rows:     *)
(* the PermissionService methods and the bulk update routes                *)

\* the number of association rows ever inserted within the model
MaxAssoc == 4

AssocModels == {"UserPermission", "UserGroup", "GroupPermission"}

\* what a service call or a loop of a handler leaves behind
Done(ok, d, clk) == [ok |-> ok, db |-> d, clk |-> clk]

\* if (!existing) { M.objects.create(pair) }
CreateIfMissing(d, clk, m, pair, existing) ==
  IF ~existing.ok THEN Done(FALSE, d, clk)
  ELSE IF existing.found THEN Done(TRUE, d, clk)
  ELSE ObjectsCreate(d, m, pair, clk)

\* if (found) { found.delete() }
DeleteIfFound(d, clk, m, found) ==
  IF ~found.ok THEN Done(FALSE, d, clk)
  ELSE IF ~found.found THEN Done(TRUE, d, clk)
  ELSE Done(ModelDelete(d, m, found.value).ok,
            ModelDelete(d, m, found.value).db, clk)

AssignPermission(d, clk, userId, permissionId) ==
  CreateIfMissing(d, clk, "UserPermission",
                  [userId |-> Num(userId), permissionId |-> Num(permissionId)],
                  ObjectsGet(d, "UserPermission",
                             [userId |-> Num(userId),
                              permissionId |-> Num(permissionId)]))

RevokePermission(d, clk, userId, permissionId) ==
  DeleteIfFound(d, clk, "UserPermission",
                ObjectsGet(d, "UserPermission",
                           [userId |-> Num(userId),
                            permissionId |-> Num(permissionId)]))

AssignGroup(d, clk, userId, groupId) ==
  CreateIfMissing(d, clk, "UserGroup",
                  [userId |-> Num(userId), groupId |-> Num(groupId)],
                  ObjectsGet(d, "UserGroup",
                             [userId |-> Num(userId), groupId |-> Num(groupId)]))

RemoveFromGroup(d, clk, userId, groupId) ==
  DeleteIfFound(d, clk, "UserGroup",
                ObjectsGet(d, "UserGroup",
                           [userId |-> Num(userId), groupId |-> Num(groupId)]))

RECURSIVE DeleteEach(_, _, _, _)
DeleteEachNext(r, clk, m, rest) ==
  IF ~r.ok THEN Done(FALSE, r.db, clk) ELSE DeleteEach(r.db, clk, m, rest)

\* (variant: the owner's rows are kept)
DeleteEach_Keep(d, clk, m, existing) == Done(TRUE, d, clk)

\* existing.forEach(row => row.delete())
DeleteEach(d, clk, m, existing) ==
  IF existing = << >> THEN Done(TRUE, d, clk)
  ELSE DeleteEachNext(ModelDelete(d, m, Head(existing)), clk, m, Tail(existing))

RECURSIVE SaveEach(_, _, _, _, _, _, _)
SaveEachNext(r, m, ownerCol, owner, idCol, rest) ==
  IF ~r.ok THEN Done(FALSE, r.db, r.clk)
  ELSE SaveEach(r.db, r.clk, m, ownerCol, owner, idCol, rest)

\* ids.forEach(id => { const row = new M(); row[ownerCol] = owner;
\*                     row[idCol] = id; row.save(); })
SaveEach(d, clk, m, ownerCol, owner, idCol, ids) ==
  IF ids = << >> THEN Done(TRUE, d, clk)
  ELSE SaveEachNext(ModelSave(d, m,
                              (ownerCol :> Num(owner)) @@ (idCol :> Head(ids))
                                @@ NewInstance(m),
                              clk),
                    m, ownerCol, owner, idCol, Tail(ids))

\* reply.send({ success: true }), or the 500 of a handler that threw
SuccessReply(r) == Reply(IF r.ok THEN 200 ELSE 500, r.db, r.clk, << >>)

\* the name of the id list in the body of a bulk update
ListKey(idCol) == idCol \o "s"

\* the bulk update after the owner's rows were deleted; forEach on a body
\* without the id list throws
Recreate(r, m, ownerCol, owner, idCol, body) ==
  IF ~r.ok \/ ListKey(idCol) \notin DOMAIN body
    THEN Reply(500, r.db, r.clk, << >>)
  ELSE SuccessReply(SaveEach(r.db, r.clk, m, ownerCol, owner, idCol,
                             body[ListKey(idCol)]))

\* the bulk update after the owner's rows were selected
Replace(d, clk, m, ownerCol, owner, idCol, body, existing) ==
  IF ~existing.ok THEN Reply(500, d, clk, << >>)
  ELSE Recreate(DeleteEach(d, clk, m, existing.list),
                m, ownerCol, owner, idCol, body)

\* the three bulk update handlers: select the owner's rows, delete each,
\* save one row per id of the body
BulkUpdate(d, clk, m, ownerCol, owner, idCol, body) ==
  Replace(d, clk, m, ownerCol, owner, idCol, body,
          QsAll(d, QsFilter(NewQuerySet(m), (ownerCol :> Num(owner)))))

\* PUT /api/admin/users/:userId/groups
UpdateUserGroups(d, clk, userId, body) ==
  BulkUpdate(d, clk, "UserGroup", "userId", userId, "groupId", body)

\* PUT /api/admin/users/:userId/permissions
UpdateUserPermissions(d, clk, userId, body) ==
  BulkUpdate(d, clk, "UserPermission", "userId", userId, "permissionId", body)

\* PUT /api/admin/groups/:groupId/permissions
UpdateGroupPermissions(d, clk, groupId, body) ==
  BulkUpdate(d, clk, "GroupPermission", "groupId", groupId,
             "permissionId", body)

\* owner and member column of each association model
OwnerCol(m) == IF m = "GroupPermission" THEN "groupId" ELSE "userId"
MemberCol(m) == IF m = "UserGroup" THEN "groupId" ELSE "permissionId"

InitAssoc ==
  /\ db = AdminDb({}, TRUE)
  /\ clock = 0
  /\ inst = [i \in Slots |-> NoInstance]
  /\ qs = NoQuerySet
  /\ res = NoResult
  /\ models = NoModels

\* the ids in paths and bodies
OwnerIds == 1..2
MemberIds == 1..2
IdLists ==
  { << >>, << Num(2) >>, << Num(1), Num(1) >> }

\* the bodies of the bulk updates on m: an id list, or none
Bodies(m) ==
  { (ListKey(MemberCol(m)) :> l) : l \in IdLists } \cup { [ids |-> << >>] }

\* the id list of a body, empty when the body has none
ListOf(m, body) ==
  IF ListKey(MemberCol(m)) \in DOMAIN body THEN body[ListKey(MemberCol(m))]
  ELSE << >>

\* one service call or bulk request, from receipt to its outcome r
Associate(op, m, owner, ids, r) ==
  /\ r.db.seq["user_permissions"] + r.db.seq["user_groups"]
       + r.db.seq["group_permissions"] <= MaxAssoc
  /\ db' = r.db
  /\ clock' = r.clk
  /\ res' = [Result(op, "", r.status < 400, "") EXCEPT
               !.status = r.status,
               !.arg = [model |-> m, owner |-> owner, ids |-> ids]]
  /\ UNCHANGED << inst, qs, models >>

\* POST /api/admin/users/:id/permissions/:permissionId
PostUserPermission(id, permissionId) ==
  Associate("assignPermission", "UserPermission", id, << Num(permissionId) >>,
            SuccessReply(AssignPermission(db, clock, id, permissionId)))

\* DELETE /api/admin/users/:id/permissions/:permissionId
DeleteUserPermission(id, permissionId) ==
  Associate("revokePermission", "UserPermission", id, << Num(permissionId) >>,
            SuccessReply(RevokePermission(db, clock, id, permissionId)))

\* permissionService.assignGroup(userId, groupId)
CallAssignGroup(userId, groupId) ==
  Associate("assignGroup", "UserGroup", userId, << Num(groupId) >>,
            SuccessReply(AssignGroup(db, clock, userId, groupId)))

\* permissionService.removeFromGroup(userId, groupId)
CallRemoveFromGroup(userId, groupId) ==
  Associate("removeFromGroup", "UserGroup", userId, << Num(groupId) >>,
            SuccessReply(RemoveFromGroup(db, clock, userId, groupId)))

PutUserGroups(userId, body) ==
  Associate("update", "UserGroup", userId, ListOf("UserGroup", body),
            UpdateUserGroups(db, clock, userId, body))

PutUserPermissions(userId, body) ==
  Associate("update", "UserPermission", userId,
            ListOf("UserPermission", body),
            UpdateUserPermissions(db, clock, userId, body))

PutGroupPermissions(groupId, body) ==
  Associate("update", "GroupPermission", groupId,
            ListOf("GroupPermission", body),
            UpdateGroupPermissions(db, clock, groupId, body))

NextAssoc ==
  \/ \E u \in OwnerIds, p \in MemberIds : PostUserPermission(u, p)
  \/ \E u \in OwnerIds, p \in MemberIds : DeleteUserPermission(u, p)
  \/ \E u \in OwnerIds, g \in MemberIds : CallAssignGroup(u, g)
  \/ \E u \in OwnerIds, g \in MemberIds : CallRemoveFromGroup(u, g)
  \/ \E u \in OwnerIds, body \in Bodies("UserGroup") : PutUserGroups(u, body)
  \/ \E u \in OwnerIds, body \in Bodies("UserPermission") :
       PutUserPermissions(u, body)
  \/ \E g \in OwnerIds, body \in Bodies("GroupPermission") :
       PutGroupPermissions(g, body)

SpecAssoc == InitAssoc /\ [][NextAssoc]_vars

\* the rows of association model m in d that belong to owner
OwnedRows(d, m, owner) ==
  { r \in d.rows[TableName(m)] : r[OwnerCol(m)] = Num(owner) }

\* no two rows of m in d carry the same (owner, member) pair
UniqueByPair(d, m) ==
  \A r1, r2 \in d.rows[TableName(m)] :
    (r1[OwnerCol(m)] = r2[OwnerCol(m)] /\ r1[MemberCol(m)] = r2[MemberCol(m)])
      => r1 = r2

\* C19 (as claimed): whatever sequence of assignPermission, revokePermission,
\* assignGroup, removeFromGroup and bulk updates ran, each association
\* table holds at most one row per pair, and right after
\* revokePermission(u, p) no row grants p to u.
C19_UniqueByPair ==
  [][ /\ \A m \in AssocModels : UniqueByPair(db', m)
      /\ (res'.op = "revokePermission" /\ res'.status = 200)
           => \A r \in OwnedRows(db', "UserPermission", res'.arg.owner) :
                r.permissionId # res'.arg.ids[1]
    ]_vars

\* C20: a bulk update answered with success leaves the owner with exactly
\* the ids of the body, none of the owner's previous rows survives (the
\* rows are new ones), and the rows of the other owners and the other two
\* association tables are as before.
C20_BulkUpdateReplaces ==
  [][ (res'.op = "update" /\ res'.status = 200)
      => /\ { r[MemberCol(res'.arg.model)] :
                r \in OwnedRows(db', res'.arg.model, res'.arg.owner) }
              = Range(res'.arg.ids)
         /\ OwnedRows(db', res'.arg.model, res'.arg.owner)
              \cap OwnedRows(db, res'.arg.model, res'.arg.owner) = {}
         /\ db'.rows[TableName(res'.arg.model)]
              \ OwnedRows(db', res'.arg.model, res'.arg.owner)
              = db.rows[TableName(res'.arg.model)]
                  \ OwnedRows(db, res'.arg.model, res'.arg.owner)
         /\ \A T \in TableNames \ {TableName(res'.arg.model)} :
              db'.rows[T] = db.rows[T]
    ]_vars

\* a bulk update replaced the membership of user 1 in group 1 (row 1) by
\* one in group 2, while user 2 was a member of a group
C20_Witness ==
  /\ res.op = "update" /\ res.status = 200
  /\ res.arg.model = "UserGroup" /\ res.arg.owner = 1
  /\ res.arg.ids = << Num(2) >>
  /\ OwnedRows(db, "UserGroup", 2) # {}
  /\ \A r \in OwnedRows(db, "UserGroup", 1) : r.id # Num(1)

---------------------------------------------------------------------------
(* Two handles on one row: last write wins                                 *)

\* the values the two writers assign
EditValues == {Str("Edited"), Bool(TRUE), Null}

\* a posts table and a shop_items table with one row each
InitLww ==
  /\ db = [EmptyDb EXCEPT
             !.schema = [T \in TableNames |->
                           IF T = "posts" THEN "Post"
                           ELSE IF T = "shop_items" THEN "ShopItem"
                           ELSE NoTable],
             !.rows["posts"] =
                { [id |-> Num(1), title |-> Str("Hello"),
                   isPublished |-> Num(0)] },
             !.seq["posts"] = 1,
             !.rows["shop_items"] =
                { [id |-> Num(1), name |-> Str("Hello"), description |-> Null,
                   isActive |-> Num(0), createdAt |-> TimeStr(0)] },
             !.seq["shop_items"] = 1]
  /\ clock = 1
  /\ inst = [i \in Slots |-> NoInstance]
  /\ qs = NoQuerySet
  /\ res = NoResult
  /\ models = NoModels

\* x.a = v, for the values of the two writers
Edit(i, a, v) ==
  /\ inst[i].model # NoModel
  /\ a \in FieldNames(inst[i].model) \ {"id"}
  /\ FieldOf(inst[i].model, a).type \in
       (IF v.t = "string" THEN {"CharField", "TextField"}
        ELSE {"BooleanField", "TextField"})
  /\ inst' = [inst EXCEPT ![i].attrs[a] = v]
  /\ res' = Result("assign", i, TRUE, "")
  /\ UNCHANGED << db, clock, qs, models >>

NextLww ==
  \/ \E i \in Slots, m \in OrmModels : Get(i, m, [id |-> Num(1)])
  \/ \E i \in Slots, a \in AttrNames, v \in EditValues : Edit(i, a, v)
  \/ \E i \in Slots : Save(i)

SpecLww == InitLww /\ [][NextLww]_vars

\* slots i and j hold instances of the same stored row
SameRow(i, j) ==
  /\ i # j
  /\ inst[i].model # NoModel /\ inst[i].model = inst[j].model
  /\ Truthy(inst[i].attrs.id) /\ inst[i].attrs.id = inst[j].attrs.id

\* C21: when two instances of the same row are saved one after the other,
\* the second save succeeds like the first, and the row afterwards carries,
\* in every declared column, the value of the instance saved last (a null
\* attribute of a field with a default being stored as that default):
\* what only the earlier saver had changed is overwritten.
C21_LastWriteWins ==
  [][ \A i, j \in Slots :
        (/\ SameRow(i, j)
         /\ res.op = "save" /\ res.slot = j /\ res.ok
         /\ res'.op = "save" /\ res'.slot = i)
        => /\ res'.ok /\ res'.path = "update" /\ res'.n = 1
           /\ \A r \in RowsOf(db', inst[i].model) :
                r.id = inst[i].attrs.id =>
                  \A k \in 2..Len(GetFields(inst[i].model)) :
                    LET f == GetFields(inst[i].model)[k]
                    IN (IsNullish(inst[i].attrs[f.name])
                          /\ f.default # Undefined)
                       \/ r[f.name] = StoredForm(inst[i].attrs[f.name])
    ]_vars

\* handle a changed the title and saved, then handle b, which had changed
\* isPublished only, saved: the row has b's old title again
C21_Witness ==
  /\ res.op = "save" /\ res.slot = "b" /\ res.ok
  /\ inst["a"].model = "Post" /\ inst["b"].model = "Post"
  /\ inst["a"].attrs.id = Num(1) /\ inst["b"].attrs.id = Num(1)
  /\ inst["a"].attrs.title = Str("Edited")
  /\ inst["b"].attrs.isPublished = Bool(TRUE)
  /\ RowsOf(db, "Post") =
       { [id |-> Num(1), title |-> Str("Hello"), isPublished |-> Num(1)] }

---------------------------------------------------------------------------
(* AuthService: register, verifyEmail, login, requestPasswordReset,        *)
(* resetPassword, changePassword. A method runs without interruption up    *)
(* to an await on bcrypt (setPassword, checkPassword); other requests are  *)
(* served while it waits, and it goes on with the objects it loaded.       *)
(* Two requests are in flight at most: a login or a password change, and   *)
(* a password reset, or two password resets.                               *)

\* what a service method returns to its route: { success, message }
Returned(success, message, d, clk) ==
  Reply(IF success THEN 200 ELSE 400, d, clk,
        << [success |-> success, message |-> message] >>)

\* a throw inside the route's try block
Thrown(d, clk) == Returned(FALSE, "error", d, clk)

\* parseInt(userId)
ParseInt(s) == CHOOSE k \in 1..5 : NumStr(k) = s.v

\* isExpired(): new Date() > new Date(this.expiresAt); a token issued
\* within the time modelled expires after it ("later")
IsExpired(token, clk) ==
  \E c \in 0..6 : c < clk /\ token.expiresAt = TimeStr(c)

\* uuidv4(): a value no other token has
Uuid(d, T, kind) == Str(kind \o "." \o NumStr(NextId(d, T)))

\* register, after the verification token was stored
RegisterSent(t) ==
  IF ~t.ok THEN Thrown(t.db, t.clk)
  ELSE Returned(TRUE, "Registration successful", t.db, t.clk)

\* register, after user.save()
RegisterSaved(d, clk, s) ==
  IF ~s.ok THEN Thrown(d, clk)
  ELSE RegisterSent(
         ObjectsCreate(s.db, "EmailVerificationToken",
                       [userId |-> Str(NumStr(s.inst.id.v)),
                        token |-> Uuid(s.db, "email_verification_tokens",
                                       "verify"),
                        expiresAt |-> Str("later")], s.clk))

\* register, after the two lookups
RegisterNew(d, clk, data, byEmail, byName) ==
  IF ~byEmail.ok \/ ~byName.ok THEN Thrown(d, clk)
  ELSE IF byEmail.found
    THEN Returned(FALSE, "User with this email already exists", d, clk)
  ELSE IF byName.found THEN Returned(FALSE, "Username already taken", d, clk)
  ELSE RegisterSaved(d, clk,
         ModelSave(d, "User",
                   [username |-> data.username, email |-> data.email,
                    firstName |-> Str(""), lastName |-> Str(""),
                    password |-> Hash(data.password)] @@ NewInstance("User"),
                   clk))

\* AuthService.register; the user and the token are stored in one run
\* after the await on setPassword, and the uniqueness the two lookups test
\* is tested again by the UNIQUE columns at save
AuthRegister(d, clk, data) ==
  RegisterNew(d, clk, data, ObjectsGet(d, "User", [email |-> data.email]),
              ObjectsGet(d, "User", [username |-> data.username]))

VerifyDeleted(r, clk) ==
  IF ~r.ok THEN Thrown(r.db, clk)
  ELSE Returned(TRUE, "Email verified successfully", r.db, clk)

VerifySaved(token, s) ==
  IF ~s.ok THEN Thrown(s.db, s.clk)
  ELSE VerifyDeleted(ModelDelete(s.db, "EmailVerificationToken", token), s.clk)

VerifyUser(d, clk, token, u) ==
  IF ~u.ok THEN Thrown(d, clk)
  ELSE IF ~u.found THEN Returned(FALSE, "User not found", d, clk)
  ELSE VerifySaved(token,
                   ModelSave(d, "User",
                             [u.value EXCEPT !.isActive = Bool(TRUE)], clk))

VerifyToken(d, clk, v) ==
  IF ~v.ok THEN Thrown(d, clk)
  ELSE IF ~v.found THEN Returned(FALSE, "Invalid verification token", d, clk)
  ELSE IF IsExpired(v.value, clk)
    THEN Returned(FALSE, "Verification token has expired", d, clk)
  ELSE VerifyUser(d, clk, v.value,
                  ObjectsGet(d, "User",
                             [id |-> Num(ParseInt(v.value.userId))]))

\* AuthService.verifyEmail: no await inside
VerifyEmail(d, clk, token) ==
  VerifyToken(d, clk, ObjectsGet(d, "EmailVerificationToken",
                                 [token |-> token]))

ResetIssued(t) ==
  IF ~t.ok THEN Thrown(t.db, t.clk)
  ELSE Returned(TRUE, "If an account exists", t.db, t.clk)

ResetRequested(d, clk, u) ==
  IF ~u.ok THEN Thrown(d, clk)
  ELSE IF ~u.found THEN Returned(TRUE, "If an account exists", d, clk)
  ELSE ResetIssued(
         ObjectsCreate(d, "PasswordResetToken",
                       [userId |-> Str(NumStr(u.value.id.v)),
                        token |-> Uuid(d, "password_reset_tokens", "reset"),
                        expiresAt |-> Str("later")], clk))

\* AuthService.requestPasswordReset
RequestPasswordReset(d, clk, email) ==
  ResetRequested(d, clk, ObjectsGet(d, "User", [email |-> email]))

\* what a method holds when it reaches its await, or the result it
\* returned before
Awaiting(token, user) ==
  [done |-> FALSE, reply |-> << >>, token |-> token, user |-> user]
Finished(reply) ==
  [done |-> TRUE, reply |-> reply, token |-> << >>, user |-> << >>]

ResetLoadUser(d, clk, token, u) ==
  IF ~u.ok THEN Finished(Thrown(d, clk))
  ELSE IF ~u.found THEN Finished(Returned(FALSE, "User not found", d, clk))
  ELSE Awaiting(token, u.value)

ResetLoadToken(d, clk, t) ==
  IF ~t.ok THEN Finished(Thrown(d, clk))
  ELSE IF ~t.found
    THEN Finished(Returned(FALSE, "Invalid reset token", d, clk))
  ELSE IF Truthy(t.value.used)
    THEN Finished(Returned(FALSE, "Reset token has already been used", d, clk))
  ELSE IF IsExpired(t.value, clk)
    THEN Finished(Returned(FALSE, "Reset token has expired", d, clk))
  ELSE ResetLoadUser(d, clk, t.value,
                     ObjectsGet(d, "User",
                                [id |-> Num(ParseInt(t.value.userId))]))

\* resetPassword up to `await user.setPassword(newPassword)`
ResetPasswordLoad(d, clk, token) ==
  ResetLoadToken(d, clk, ObjectsGet(d, "PasswordResetToken",
                                    [token |-> token]))

RECURSIVE RevokeEach(_, _, _)
RevokeEachNext(s, rest) ==
  IF ~s.ok THEN Done(FALSE, s.db, s.clk) ELSE RevokeEach(s.db, s.clk, rest)

\* (variant: the refresh tokens are left as they are)
RevokeEach_Skip(d, clk, refreshTokens) == Done(TRUE, d, clk)

\* refreshTokens.forEach(token => { token.revoked = true; token.save(); })
RevokeEach(d, clk, refreshTokens) ==
  IF refreshTokens = << >> THEN Done(TRUE, d, clk)
  ELSE RevokeEachNext(ModelSave(d, "RefreshToken",
                                [Head(refreshTokens) EXCEPT
                                   !.revoked = Bool(TRUE)], clk),
                      Tail(refreshTokens))

ResetRevoked(r) ==
  IF ~r.ok THEN Thrown(r.db, r.clk)
  ELSE Returned(TRUE, "Password reset successful", r.db, r.clk)

ResetRevoke(d, clk, all) ==
  IF ~all.ok THEN Thrown(d, clk) ELSE ResetRevoked(RevokeEach(d, clk, all.list))

ResetMarked(user, s) ==
  IF ~s.ok THEN Thrown(s.db, s.clk)
  ELSE ResetRevoke(s.db, s.clk,
                   QsAll(s.db, QsFilter(NewQuerySet("RefreshToken"),
                                        [userId |-> Str(NumStr(user.id.v))])))

ResetSaved(token, s) ==
  IF ~s.ok THEN Thrown(s.db, s.clk)
  ELSE ResetMarked(s.inst,
                   ModelSave(s.db, "PasswordResetToken",
                             [token EXCEPT !.used = Bool(TRUE)], s.clk))

\* resetPassword from user.save() on, with the token and the user it
\* loaded before the await
ResetPasswordStore(d, clk, token, user, newPassword) ==
  ResetSaved(token,
             ModelSave(d, "User",
                       [user EXCEPT !.password = Hash(newPassword)], clk))

\* changePassword up to `await user.checkPassword(currentPassword)`
ChangePasswordLoad(d, clk, u) ==
  IF ~u.ok THEN Finished(Thrown(d, clk))
  ELSE IF ~u.found THEN Finished(Returned(FALSE, "User not found", d, clk))
  ELSE Awaiting(<< >>, u.value)

ChangeSaved(s) ==
  IF ~s.ok THEN Thrown(s.db, s.clk)
  ELSE Returned(TRUE, "Password changed successfully", s.db, s.clk)

\* changePassword from the result of checkPassword on
ChangePasswordStore(d, clk, user, currentPassword, newPassword) ==
  IF Hash(currentPassword) # user.password
    THEN Returned(FALSE, "Current password is incorrect", d, clk)
  ELSE ChangeSaved(ModelSave(d, "User",
                             [user EXCEPT !.password = Hash(newPassword)],
                             clk))

\* the number of rows a token table ever holds within the model
MaxTokens == 2

AuthModels ==
  {"User", "EmailVerificationToken", "PasswordResetToken", "RefreshToken"}

\* a deployment some time after start: user 1 is active and once asked
\* for a password reset, whose token has expired; user 2 has registered
\* and not verified, the verification token expires at `expiresAt`
AuthDb(expiresAt) ==
  [Migrate(AuthModels) EXCEPT
     !.rows["users"] =
        { UserRow(1, UserNames[1], 0, 0),
          [UserRow(2, UserNames[2], 0, 0) EXCEPT !.isActive = Num(0)] },
     !.seq["users"] = 2,
     !.rows["email_verification_tokens"] =
        { [id |-> Num(1), userId |-> Str("2"), token |-> Str("verify.1"),
           createdAt |-> TimeStr(0), expiresAt |-> expiresAt] },
     !.seq["email_verification_tokens"] = 1,
     !.rows["password_reset_tokens"] =
        { [id |-> Num(1), userId |-> Str("1"), token |-> Str("reset.1"),
           createdAt |-> TimeStr(0), expiresAt |-> TimeStr(0),
           used |-> Num(0)] },
     !.seq["password_reset_tokens"] = 1]

InitAuth ==
  /\ db \in { AuthDb(TimeStr(0)), AuthDb(Str("later")) }
  /\ clock = 1
  /\ inst = [i \in Slots |-> NoInstance]
  /\ qs = NoQuerySet
  /\ res = NoResult
  /\ models = NoModels

\* what the clients send
RegisterBodies ==
  { [username |-> Str(UserNames[3]), email |-> Str(UserNames[3] \o "@x.io"),
     password |-> Str("secret")] }
Emails == { Str(UserNames[k] \o "@x.io") : k \in {1, 2} }
LoginBodies ==
  { [email |-> Str(UserNames[1] \o "@x.io"), password |-> Str("secret")],
    [email |-> Str(UserNames[2] \o "@x.io"), password |-> Str("secret")] }
TokenStrings(T) == { r.token : r \in db.rows[T] }

\* the model's horizon
WithinAuth(r) ==
  /\ r.clk <= MaxClock + 1
  /\ \A m \in AuthModels \ {"User"} : r.db.seq[TableName(m)] <= MaxTokens

\* a request served without an await between its reads and its writes
Served(op, arg, r) ==
  /\ WithinAuth(r)
  /\ db' = r.db
  /\ clock' = r.clk
  /\ res' = [Result(op, "", r.status < 400, "") EXCEPT
               !.status = r.status, !.list = r.data, !.arg = arg]
  /\ UNCHANGED << inst, qs, models >>

\* a request reaches its await holding what it loaded
Await(i, op, arg, held) ==
  /\ inst[i] = NoInstance
  /\ inst' = [inst EXCEPT ![i] = [model |-> op, attrs |-> held,
                                  deleted |-> FALSE, arg |-> arg]]
  /\ res' = [Result("await", i, TRUE, "") EXCEPT !.arg = arg]
  /\ UNCHANGED << db, clock, qs, models >>

\* the request of slot i goes on after its await and replies r
Resume(i, op, r) ==
  /\ inst[i].model = op
  /\ WithinAuth(r)
  /\ db' = r.db
  /\ clock' = r.clk
  /\ inst' = [inst EXCEPT ![i] = NoInstance]
  /\ res' = [Result(op, i, r.status < 400, "") EXCEPT
               !.status = r.status, !.list = r.data, !.arg = inst[i].arg]
  /\ UNCHANGED << qs, models >>

\* POST /auth/register
PostRegister(data) == Served("register", data, AuthRegister(db, clock, data))

\* POST /auth/verify-email
PostVerifyEmail(token) ==
  Served("verifyEmail", [token |-> token], VerifyEmail(db, clock, token))

\* POST /auth/forgot-password
PostForgotPassword(email) ==
  Served("requestPasswordReset", [email |-> email],
         RequestPasswordReset(db, clock, email))

\* POST /auth/refresh
PostRefresh(refreshToken) ==
  Served("refresh", [token |-> refreshToken],
         RefreshAccessToken(db, clock, refreshToken))

\* POST /auth/login, up to `await user.checkPassword(data.password)`
LoginBegin(i, data) ==
  \E g \in { ObjectsGet(db, "User", [email |-> data.email]) } :
    IF g.ok /\ g.found THEN Await(i, "login", data, g)
    ELSE Served("login", data, LoginFound(db, clock, g, data.password))

\* POST /auth/login, from the result of checkPassword on
LoginEnd(i) ==
  Resume(i, "login",
         LoginFound(db, clock, inst[i].attrs, inst[i].arg.password))

\* POST /auth/reset-password, up to `await user.setPassword(newPassword)`
ResetBegin(i, token, newPassword) ==
  \E l \in { ResetPasswordLoad(db, clock, token) } :
    IF l.done
      THEN Served("resetPassword", [token |-> token, newPassword |-> newPassword],
                  l.reply)
      ELSE Await(i, "resetPassword",
                 [token |-> token, newPassword |-> newPassword], l)

\* POST /auth/reset-password, from user.save() on
ResetEnd(i) ==
  Resume(i, "resetPassword",
         ResetPasswordStore(db, clock, inst[i].attrs.token, inst[i].attrs.user,
                            inst[i].arg.newPassword))

\* POST /auth/change-password by user 1, up to the await on checkPassword
ChangeBegin(i, currentPassword, newPassword) ==
  \E l \in { ChangePasswordLoad(db, clock,
                                ObjectsGet(db, "User", [id |-> Num(1)])) } :
    IF l.done
      THEN Served("changePassword",
                  [currentPassword |-> currentPassword,
                   newPassword |-> newPassword], l.reply)
      ELSE Await(i, "changePassword",
                 [currentPassword |-> currentPassword,
                  newPassword |-> newPassword], l)

\* POST /auth/change-password, from the result of checkPassword on
ChangeEnd(i) ==
  Resume(i, "changePassword",
         ChangePasswordStore(db, clock, inst[i].attrs.user,
                             inst[i].arg.currentPassword,
                             inst[i].arg.newPassword))

NextAuth ==
  \/ \E data \in RegisterBodies : PostRegister(data)
  \/ \E t \in TokenStrings("email_verification_tokens") : PostVerifyEmail(t)
  \/ \E e \in Emails : PostForgotPassword(e)
  \/ \E t \in TokenStrings("refresh_tokens") : PostRefresh(t)
  \/ \E data \in LoginBodies : LoginBegin("a", data)
  \/ LoginEnd("a")
  \/ \E i \in Slots, t \in TokenStrings("password_reset_tokens") :
       ResetBegin(i, t, Str("other"))
  \/ \E i \in Slots : ResetEnd(i)
  \/ ChangeBegin("a", Str("secret"), Str("other"))
  \/ ChangeEnd("a")

SpecAuth == InitAuth /\ [][NextAuth]_vars


\* C22: when resetPassword reports success, every refresh token the user
\* held is revoked, so that refreshAccessToken with it fails; and a refresh
\* token that fails keeps failing.
C22_ResetRevokesRefreshTokens ==
  [][ /\ \A i \in Slots :
           (res'.op = "resetPassword" /\ res'.slot = i /\ res'.status = 200)
             => \A r \in db.rows["refresh_tokens"] :
                  r.userId = Str(NumStr(inst[i].attrs.user.id.v))
                    => RefreshAccessToken(db', clock', r.token).status = 401
      /\ \A r \in db.rows["refresh_tokens"] :
           RefreshAccessToken(db, clock, r.token).status = 401
             => RefreshAccessToken(db', clock', r.token).status = 401
    ]_vars

\* user 1 logged in, asked for a reset and reset the password: the refresh
\* token of the login is revoked
C22_Witness ==
  /\ res.op = "resetPassword" /\ res.status = 200
  /\ \E r \in db.rows["refresh_tokens"] :
       r.userId = Str("1") /\ r.revoked = Num(1)


\* the stored tokens of table T whose string is token
TokenRows(d, T, token) == { r \in d.rows[T] : r.token = token }

\* C23 (as claimed): a password-reset token makes resetPassword succeed at
\* most once, that is, a reset succeeds only with a token not yet marked
\* used, marks it used, and the mark stays; verifyEmail succeeds only with
\* a stored token and deletes it; and with an expired token neither
\* succeeds nor changes a user.
C23_SingleUseTokens ==
  [][ /\ (res'.op = "resetPassword" /\ res'.status = 200)
           => /\ \A r \in TokenRows(db, "password_reset_tokens",
                                    res'.arg.token) : r.used = Num(0)
              /\ \A r \in TokenRows(db', "password_reset_tokens",
                                    res'.arg.token) : r.used = Num(1)
      /\ \A r \in db.rows["password_reset_tokens"] :
           r.used = Num(1) => [r EXCEPT !.used = Num(1)] \in
                                db'.rows["password_reset_tokens"]
      /\ (res'.op = "verifyEmail" /\ res'.status = 200)
           => /\ TokenRows(db, "email_verification_tokens",
                           res'.arg.token) # {}
              /\ TokenRows(db', "email_verification_tokens",
                           res'.arg.token) = {}
      /\ \A T \in {"password_reset_tokens", "email_verification_tokens"} :
           (/\ res'.op = (IF T = "password_reset_tokens"
                            THEN "resetPassword" ELSE "verifyEmail")
            /\ res'.slot = ""
            /\ \E r \in TokenRows(db, T, res'.arg.token) : IsExpired(r, clock))
             => res'.status = 400 /\ db'.rows["users"] = db.rows["users"]
    ]_vars


\* the user a login request read, whether the request replied at once
\* (slot "") or after its await
LoginUser(i, data) ==
  IF i = "" THEN ObjectsGet(db, "User", [email |-> data.email])
  ELSE inst[i].attrs

C27_LoginWritesLastLoginOnly ==
  [][ res'.op = "login"
      => \A u \in db.rows["users"] :
           \E v \in db'.rows["users"] : v = [u EXCEPT !.lastLogin = v.lastLogin]
    ]_vars

---------------------------------------------------------------------------
(* requireModelPermission(modelName, action), the preHandler factory of    *)
(* middleware/modelPermissions.ts                                          *)

\* user.id on the object attached to the request
UserId(user) == IF "id" \in DOMAIN user THEN Num(user.id) ELSE Undefined

\* the preHandler after the permission service answered; a throw in an
\* async hook is answered 500
PermissionAnswer(held) ==
  IF held = "throw" THEN 500 ELSE IF held = "yes" THEN 0 ELSE 403

\* requireModelPermission(modelName, action)(request, reply): 0 lets the
\* request through. The service is called as
\* hasPermission(user.id, modelName, action), and hasPermission takes
\* (userId, codename)
RequireModelPermission(d, attached, user, modelName, action) ==
  IF ~attached THEN 401
  ELSE IF user.isSuperuser THEN 0
  ELSE PermissionAnswer(HasPermission(d, UserId(user), modelName))

InitModelPermission ==
  /\ db \in { AdminDb(g, b) : g \in GrantSets, b \in BOOLEAN }
  /\ clock = 0
  /\ inst = [i \in Slots |-> NoInstance]
  /\ qs = NoQuerySet
  /\ res = NoResult
  /\ models = NoModels

\* a request reaches the preHandler with `user`, or with none attached
Guarded(attached, user, modelName, action) ==
  /\ res' = [Result("requireModelPermission", "", TRUE, "") EXCEPT
               !.status = RequireModelPermission(db, attached, user,
                                                 modelName, action),
               !.found = attached,
               !.arg = [user |-> user, model |-> modelName,
                        action |-> action]]
  /\ UNCHANGED << db, clock, inst, qs, models >>

NextModelPermission ==
  \E attached \in BOOLEAN, user \in Tokens, m \in RequestModels,
     k \in 1..Len(Actions) :
    Guarded(attached, user, m, Actions[k])

SpecModelPermission == InitModelPermission /\ [][NextModelPermission]_vars

\* C28 (as claimed): requireModelPermission answers 401 when no user is
\* attached, lets superusers through, and lets any other user through
\* exactly when hasModelPermission(userId, action, modelName) says the user
\* holds action_modelname, answering 403 otherwise.
C28_ModelPermissionGate ==
  res.op = "requireModelPermission" =>
    res.status =
      (IF ~res.found THEN 401
       ELSE IF res.arg.user.isSuperuser THEN 0
       ELSE IF HasModelPermission(db, Num(res.arg.user.userId),
                                  res.arg.action, res.arg.model) = "yes"
         THEN 0
       ELSE 403)

---------------------------------------------------------------------------
(* Role flags in the access token and in the users table                   *)

\* the updates a superuser sends to PUT /api/admin/users/:id
RoleUpdates == { [isSuperuser |-> Bool(FALSE)], [isStaff |-> Bool(FALSE)] }

\* requests carry the access tokens login issued to the users of UsersDb
NextRoles ==
  \/ \E u \in Tokens, k \in RequestIds, b \in RoleUpdates : UpdateUser(u, k, b)
  \/ \E u \in Tokens, m \in {"User", "Post"} : ListData(u, m)

SpecRoles == InitUsers /\ [][NextRoles]_vars

\* the stored row of the user a token names
StoredUser(d, user) == { r \in d.rows["users"] : r.id = Num(user.userId) }

\* C26 (as claimed): once the users table says that a user is no superuser
\* (or neither staff nor superuser), a request of that user to the
\* requireSuperuser route (or to a requireStaff route) is refused, and so
\* is a request that rests on the superuser bypass of the permission
\* check, whatever the flags in the access token say.
C26_RoleChangeEffective ==
  [][ \A r \in StoredUser(db, res'.arg.user) :
        /\ (res'.op = "userUpdate" /\ ~Truthy(r.isSuperuser))
             => res'.status = 403
        /\ (res'.op = "list" /\ ~Truthy(r.isStaff) /\ ~Truthy(r.isSuperuser))
             => res'.status = 403
        /\ (/\ res'.op = "list" /\ ~Truthy(r.isSuperuser)
            /\ HasModelPermission(db, Num(res'.arg.user.userId), "view",
                                  res'.arg.model) # "yes")
             => res'.status = 403
    ]_vars


---------------------------------------------------------------------------
(* Saving a persisted instance again                                       *)

\* C25: a save() that directly follows a successful save() or
\* objects.create() of the same instance, with no attribute assigned in
\* between, leaves every stored row as it was; in particular a timestamp
\* filled from a callable default is not produced again and rewritten.
C25_ResaveIdempotent ==
  [][ (/\ res.op \in {"save", "create"} /\ res.ok
       /\ res'.op = "save" /\ res'.slot = res.slot)
        => (res'.ok /\ db'.rows = db.rows) ]_vars


---------------------------------------------------------------------------
(* Admin panel: DualListBox                                                *)
(*   Under SpecDualList `inst` is the component: the `selected` prop its   *)
(*   parent keeps (onChange is the parent's state setter) and the          *)
(*   component's four state hooks; `res` is the last call of onChange.     *)
(*   Labels and filters are strings written as sequences of characters.    *)

MaxSelected == 4

\* the `available` prop: all groups (or permissions), unique by id
Available ==
  << [id |-> 1, name |-> << "A", "b" >>],
     [id |-> 2, name |-> << "b" >>],
     [id |-> 3, name |-> << "c" >>] >>

\* what the user types into a filter box
FilterTexts == { << >>, << "a" >>, << "B" >> }

\* String.prototype.toLowerCase() on a label or a filter text
LowerCase(s) ==
  [k \in DOMAIN s |->
     CASE s[k] = "A" -> "a" [] s[k] = "B" -> "b" [] OTHER -> s[k]]

\* String.prototype.includes(part)
StringIncludes(s, part) ==
  \E k \in 0..Len(s) :
     k + Len(part) <= Len(s) /\ SubSeq(s, k + 1, k + Len(part)) = part

\* Array.prototype.includes(x)
ArrayIncludes(a, x) == \E k \in DOMAIN a : a[k] = x

\* the ids of a list of items: items.map(item => item.id)
RECURSIVE ItemIds(_)
ItemIds(items) ==
  IF items = << >> THEN << >>
  ELSE << Head(items).id >> \o ItemIds(Tail(items))

\* available.filter(item => !selected.includes(item.id))
RECURSIVE AvailableItems(_, _)
AvailableItems(available, selected) ==
  IF available = << >> THEN << >>
  ELSE (IF ~ArrayIncludes(selected, Head(available).id)
          THEN << Head(available) >> ELSE << >>)
       \o AvailableItems(Tail(available), selected)

\* available.filter(item => selected.includes(item.id))
RECURSIVE ChosenItems(_, _)
ChosenItems(available, selected) ==
  IF available = << >> THEN << >>
  ELSE (IF ArrayIncludes(selected, Head(available).id)
          THEN << Head(available) >> ELSE << >>)
       \o ChosenItems(Tail(available), selected)

\* filteredAvailable / filteredChosen: all items when the filter is empty,
\* else those whose lower-cased label includes the lower-cased filter
RECURSIVE Filtered(_, _)
Filtered(items, filter) ==
  IF filter = << >> THEN items
  ELSE IF items = << >> THEN << >>
  ELSE (IF StringIncludes(LowerCase(Head(items).name), LowerCase(filter))
          THEN << Head(items) >> ELSE << >>)
       \o Filtered(Tail(items), filter)

\* Array.from(e.target.selectedOptions).map(opt => parseInt(opt.value)):
\* the options the user marked, in the order they are rendered
RECURSIVE SelectedOptions(_, _)
SelectedOptions(options, marked) ==
  IF options = << >> THEN << >>
  ELSE (IF Head(options).id \in marked
          THEN << ParseInt(Str(NumStr(Head(options).id))) >> ELSE << >>)
       \o SelectedOptions(Tail(options), marked)

\* selected.filter(id => !removed.includes(id))
RECURSIVE Without(_, _)
Without(selected, removed) ==
  IF selected = << >> THEN << >>
  ELSE (IF ~ArrayIncludes(removed, Head(selected))
          THEN << Head(selected) >> ELSE << >>)
       \o Without(Tail(selected), removed)

\* handleChoose: [...selected, ...selectedAvailable]
HandleChooseList(selected, selectedAvailable) ==
  selected \o selectedAvailable

\* handleRemove
HandleRemoveList(selected, selectedChosen) ==
  Without(selected, selectedChosen)

\* handleChooseAll
HandleChooseAllList(selected, filteredAvailable) ==
  selected \o ItemIds(filteredAvailable)

\* handleRemoveAll
HandleRemoveAllList(selected, filteredChosen) ==
  Without(selected, ItemIds(filteredChosen))

FilteredAvailable ==
  Filtered(AvailableItems(Available, inst.selected), inst.availableFilter)

FilteredChosen ==
  Filtered(ChosenItems(Available, inst.selected), inst.chosenFilter)

\* the selected lists the parent loads for the edited user or group
LoadedSelections == { << >>, << 2 >>, << 3, 1 >> }

InitDualList ==
  /\ db = EmptyDb
  /\ clock = 0
  /\ inst \in { [selected |-> s, selectedAvailable |-> << >>,
                 selectedChosen |-> << >>, availableFilter |-> << >>,
                 chosenFilter |-> << >>] : s \in LoadedSelections }
  /\ qs = NoQuerySet
  /\ res = NoResult
  /\ models = NoModels

\* onChange(list): the parent stores the list and the component is
\* rendered again with it
OnChange(op, list) ==
  /\ Len(list) <= MaxSelected
  /\ res' = [Result(op, "", TRUE, "") EXCEPT !.list = list]

\* the user marks options in the Available box
SelectAvailable(marked) ==
  /\ marked \subseteq Range(ItemIds(FilteredAvailable))
  /\ inst' = [inst EXCEPT
                !.selectedAvailable = SelectedOptions(FilteredAvailable, marked)]
  /\ res' = Result("selectAvailable", "", TRUE, "")
  /\ UNCHANGED << db, clock, qs, models >>

\* the user marks options in the Chosen box
SelectChosen(marked) ==
  /\ marked \subseteq Range(ItemIds(FilteredChosen))
  /\ inst' = [inst EXCEPT
                !.selectedChosen = SelectedOptions(FilteredChosen, marked)]
  /\ res' = Result("selectChosen", "", TRUE, "")
  /\ UNCHANGED << db, clock, qs, models >>

SetAvailableFilter(text) ==
  /\ inst' = [inst EXCEPT !.availableFilter = text]
  /\ res' = Result("setAvailableFilter", "", TRUE, "")
  /\ UNCHANGED << db, clock, qs, models >>

SetChosenFilter(text) ==
  /\ inst' = [inst EXCEPT !.chosenFilter = text]
  /\ res' = Result("setChosenFilter", "", TRUE, "")
  /\ UNCHANGED << db, clock, qs, models >>

\* the Choose button (disabled while nothing is marked)
HandleChoose ==
  /\ Len(inst.selectedAvailable) # 0
  /\ \E list \in { HandleChooseList(inst.selected, inst.selectedAvailable) } :
        /\ OnChange("handleChoose", list)
        /\ inst' = [inst EXCEPT !.selected = list,
                                !.selectedAvailable = << >>]
  /\ UNCHANGED << db, clock, qs, models >>

\* the Remove button (disabled while nothing is marked)
HandleRemove ==
  /\ Len(inst.selectedChosen) # 0
  /\ \E list \in { HandleRemoveList(inst.selected, inst.selectedChosen) } :
        /\ OnChange("handleRemove", list)
        /\ inst' = [inst EXCEPT !.selected = list, !.selectedChosen = << >>]
  /\ UNCHANGED << db, clock, qs, models >>

\* the "Choose all" link
HandleChooseAll ==
  /\ \E list \in { HandleChooseAllList(inst.selected, FilteredAvailable) } :
        /\ OnChange("handleChooseAll", list)
        /\ inst' = [inst EXCEPT !.selected = list]
  /\ UNCHANGED << db, clock, qs, models >>

\* the "Remove all" link
HandleRemoveAll ==
  /\ \E list \in { HandleRemoveAllList(inst.selected, FilteredChosen) } :
        /\ OnChange("handleRemoveAll", list)
        /\ inst' = [inst EXCEPT !.selected = list]
  /\ UNCHANGED << db, clock, qs, models >>

NextDualList ==
  \/ \E marked \in SUBSET Range(ItemIds(Available)) : SelectAvailable(marked)
  \/ \E marked \in SUBSET Range(ItemIds(Available)) : SelectChosen(marked)
  \/ \E text \in FilterTexts : SetAvailableFilter(text)
  \/ \E text \in FilterTexts : SetChosenFilter(text)
  \/ HandleChoose
  \/ HandleRemove
  \/ HandleChooseAll
  \/ HandleRemoveAll

SpecDualList == InitDualList /\ [][NextDualList]_vars

\* C29: every list the component passes to onChange names no id twice and
\* names only ids of available items.
C29_OnChangeDuplicateFree ==
  res.op \in {"handleChoose", "handleRemove", "handleChooseAll",
              "handleRemoveAll"}
    => /\ \A j, k \in DOMAIN res.list : res.list[j] = res.list[k] => j = k
       /\ Range(res.list) \subseteq Range(ItemIds(Available))


---------------------------------------------------------------------------
(* Admin panel: ApiClient and useAuthStore                                 *)
(*   Under SpecApiClient `inst` is the browser page: localStorage,         *)
(*   window.location and, by handle, the request each caller is waiting    *)
(*   for (its axios config, where it stands, and how often it was sent     *)
(*   and made the client post /auth/refresh); `res` is the last response   *)
(*   the client handled.                                                   *)

NoItem == ""

\* the statuses the API answers with; 0 stands for an error without a
\* response (error.response is undefined)
Statuses == {0, 200, 401, 403, 500}

\* the access tokens /auth/login and /auth/refresh hand out
AccessTokens == {"a0", "a1"}

Callers == {"api", "login", "loadUser"}

NoRequest ==
  [caller |-> "", phase |-> "idle",
   config |-> [retry |-> FALSE, Authorization |-> NoItem],
   sends |-> 0, refreshes |-> 0, status |-> 0]

\* request interceptor: the stored access token, when there is one, becomes
\* the Authorization header
RequestInterceptor(localStorage, config) ==
  IF localStorage.accessToken # NoItem
    THEN [config EXCEPT !.Authorization = "Bearer " \o localStorage.accessToken]
    ELSE config

\* (variant: the _retry mark is not consulted)
ShouldRefresh_Always(status, config) == status = 401

\* response interceptor: error.response?.status === 401 &&
\* !originalRequest._retry
ShouldRefresh(status, config) == status = 401 /\ ~config.retry

\* localStorage.removeItem('accessToken'); removeItem('refreshToken')
RemoveTokens(localStorage) ==
  [localStorage EXCEPT !.accessToken = NoItem, !.refreshToken = NoItem]

\* the promise of request r settles: api.login stores the tokens of a
\* successful answer, loadUser removes them when its request is rejected
Settled(page, i, r, ok, tokens) ==
  [page EXCEPT
     !.requests[i] = [r EXCEPT !.phase = IF ok THEN "resolved" ELSE "rejected"],
     !.localStorage =
        IF r.caller = "login" /\ ok THEN tokens
        ELSE IF r.caller = "loadUser" /\ ~ok THEN RemoveTokens(@)
        ELSE @]

\* this.client(config): the request interceptor runs and the request goes
\* out
Sent(page, i, r) ==
  [page EXCEPT
     !.requests[i] =
        [r EXCEPT !.phase = "sent", !.sends = @ + 1,
                  !.config = RequestInterceptor(page.localStorage, r.config)]]

\* response interceptor, the error handler up to its await
OnRejected(page, i, r, status) ==
  IF ShouldRefresh(status, r.config)
    THEN LET marked == [r EXCEPT !.config.retry = TRUE, !.status = status]
         IN IF page.localStorage.refreshToken # NoItem
              THEN [page EXCEPT
                      !.requests[i] =
                         [marked EXCEPT !.phase = "refreshing",
                                        !.refreshes = @ + 1]]
              ELSE Settled(page, i, marked, FALSE, page.localStorage)
    ELSE Settled(page, i, [r EXCEPT !.status = status], FALSE,
                 page.localStorage)

\* response interceptor, after the await on axios.post('/auth/refresh'):
\* store the new access token and send the request again, or (catch) remove
\* the tokens and go to /login, then reject with the original error
OnRefreshed(page, i, r, ok, accessToken) ==
  IF ok
    THEN LET stored == [page EXCEPT !.localStorage.accessToken = accessToken]
         IN Sent(stored, i,
                 [r EXCEPT !.config.Authorization = "Bearer " \o accessToken])
    ELSE LET cleared == [page EXCEPT !.localStorage = RemoveTokens(@),
                                     !.location = "/login"]
         IN Settled(cleared, i, r, FALSE, cleared.localStorage)

StoredTokens ==
  { [accessToken |-> NoItem, refreshToken |-> NoItem],
    [accessToken |-> "a0", refreshToken |-> "r0"] }

InitApiClient ==
  /\ db = EmptyDb
  /\ clock = 0
  /\ inst \in { [localStorage |-> t, location |-> "/",
                 requests |-> [i \in Slots |-> NoRequest]] :
                  t \in StoredTokens }
  /\ qs = NoQuerySet
  /\ res = NoResult
  /\ models = NoModels

\* a caller starts a request through this.client; loadUser does so only
\* when an access token is stored
Call(i, caller) ==
  /\ inst.requests[i].phase \in {"idle", "resolved", "rejected"}
  /\ caller = "loadUser" => inst.localStorage.accessToken # NoItem
  /\ inst' = Sent(inst, i, [NoRequest EXCEPT !.caller = caller])
  /\ res' = Result("call", i, TRUE, "")
  /\ UNCHANGED << db, clock, qs, models >>

\* the API answers request i with a 2xx response
Fulfilled(i, accessToken) ==
  /\ inst.requests[i].phase = "sent"
  /\ inst' = Settled(inst, i, [inst.requests[i] EXCEPT !.status = 200], TRUE,
                     [accessToken |-> accessToken, refreshToken |-> "r0"])
  /\ res' = [Result("response", i, TRUE, "") EXCEPT !.status = 200]
  /\ UNCHANGED << db, clock, qs, models >>

\* request i fails with `status`
Rejected(i, status) ==
  /\ inst.requests[i].phase = "sent"
  /\ status # 200
  /\ inst' = OnRejected(inst, i, inst.requests[i], status)
  /\ res' = [Result("response", i, FALSE, "") EXCEPT !.status = status]
  /\ UNCHANGED << db, clock, qs, models >>

\* POST /auth/refresh made for request i is answered, or fails
Refreshed(i, ok, accessToken) ==
  /\ inst.requests[i].phase = "refreshing"
  /\ inst' = OnRefreshed(inst, i, inst.requests[i], ok, accessToken)
  /\ res' = Result("refresh", i, ok, "")
  /\ UNCHANGED << db, clock, qs, models >>

\* useAuthStore.logout()
Logout ==
  /\ inst' = [inst EXCEPT !.localStorage = RemoveTokens(@)]
  /\ res' = Result("logout", "", TRUE, "")
  /\ UNCHANGED << db, clock, qs, models >>

NextApiClient ==
  \/ \E i \in Slots, caller \in Callers : Call(i, caller)
  \/ \E i \in Slots, t \in AccessTokens : Fulfilled(i, t)
  \/ \E i \in Slots, status \in Statuses : Rejected(i, status)
  \/ \E i \in Slots, ok \in BOOLEAN, t \in AccessTokens : Refreshed(i, ok, t)
  \/ Logout

SpecApiClient == InitApiClient /\ [][NextApiClient]_vars

\* C30: a request makes the client post /auth/refresh at most once and is
\* sent at most twice, the second time only after that refresh; a refresh is
\* started only by a 401 answer to a request not yet retried, and a retried
\* request answered 401 again is rejected; a failed refresh removes both
\* tokens, goes to /login and rejects the request.
C30_RetryBound ==
  [][ \A i \in Slots :
        LET r == inst.requests[i]
            s == inst'.requests[i]
        IN /\ s.refreshes <= 1 /\ s.sends <= 2
           /\ s.sends = 2 => s.refreshes = 1
           /\ (s.refreshes > r.refreshes /\ s.caller = r.caller /\ s.sends = r.sends)
                => /\ res'.op = "response" /\ res'.slot = i
                   /\ res'.status = 401 /\ ~r.config.retry
           /\ (res'.op = "response" /\ res'.slot = i /\ res'.status # 401)
                => /\ s.phase \in {"resolved", "rejected"}
                   /\ s.refreshes = r.refreshes /\ s.sends = r.sends
           /\ (/\ res'.op = "response" /\ res'.slot = i /\ res'.status = 401
               /\ r.config.retry)
                => /\ s.phase = "rejected"
                   /\ s.refreshes = r.refreshes /\ s.sends = r.sends
           /\ (res'.op = "refresh" /\ res'.slot = i /\ ~res'.ok)
                => /\ inst'.localStorage.accessToken = NoItem
                   /\ inst'.localStorage.refreshToken = NoItem
                   /\ inst'.location = "/login"
                   /\ s.phase = "rejected" /\ s.sends = r.sends
    ]_vars

\* a request was answered 401, the refresh succeeded, the request was sent
\* again and answered 401 once more: it is rejected after one refresh and
\* two sends
C30_Witness ==
  \E i \in Slots :
     /\ res.op = "response" /\ res.slot = i /\ res.status = 401
     /\ inst.requests[i].phase = "rejected"
     /\ inst.requests[i].refreshes = 1 /\ inst.requests[i].sends = 2

=============================================================================
